---- MODULE Spec2Model ----
(***************************************************************************)
(* Library manager: the path inference and safety-gated rewrite engine.    *)
(* Strings are sequences of one-character strings; the empty sequence      *)
(* stands for Python's None / '' wherever the code tests "if not x".       *)
(* Absolute paths are sequences of segments below the filesystem root.     *)
(***************************************************************************)
EXTENDS Integers, Sequences, FiniteSets, TLC

(***************************************************************************)
(* Characters and string helpers (str methods used by the code)            *)
(***************************************************************************)
UpperSeq == <<"A","B","C","D","E","F","G","H","I","J","K","L","M",
              "N","O","P","Q","R","S","T","U","V","W","X","Y","Z">>
LowerSeq == <<"a","b","c","d","e","f","g","h","i","j","k","l","m",
              "n","o","p","q","r","s","t","u","v","w","x","y","z">>
DigitChars == {"0","1","2","3","4","5","6","7","8","9"}
UpperChars == {UpperSeq[i] : i \in DOMAIN UpperSeq}
LowerChars == {LowerSeq[i] : i \in DOMAIN LowerSeq}
SpaceChars == {" "}
\* \w of the regular expressions: letters, digits and underscore
WordChars == UpperChars \cup LowerChars \cup DigitChars \cup {"_"}

EmptyStr == <<>>

LowerChar(c) ==
  IF c \in UpperChars
  THEN LowerSeq[CHOOSE i \in DOMAIN UpperSeq : UpperSeq[i] = c]
  ELSE c

\* str.lower()
Lower(s) == [i \in DOMAIN s |-> LowerChar(s[i])]

\* v is evaluated once and handed to Body
Let(v, Body(_)) == CHOOSE r \in {Body(x) : x \in {v}} : TRUE

MinOf(S) == CHOOSE x \in S : \A y \in S : x <= y
MaxOf(S) == CHOOSE x \in S : \A y \in S : y <= x

LStrip(s, cs) ==
  LET keep == {i \in DOMAIN s : s[i] \notin cs}
  IN IF keep = {} THEN <<>> ELSE SubSeq(s, MinOf(keep), Len(s))

RStrip(s, cs) ==
  LET keep == {i \in DOMAIN s : s[i] \notin cs}
  IN IF keep = {} THEN <<>> ELSE SubSeq(s, 1, MaxOf(keep))

\* str.strip(chars); str.strip() is StripChars(s, SpaceChars)
StripChars(s, cs) == RStrip(LStrip(s, cs), cs)

RemoveChars(s, cs) == SelectSeq(s, LAMBDA c : c \notin cs)

StartsWith(s, p) == Len(p) <= Len(s) /\ SubSeq(s, 1, Len(p)) = p

MatchAt(s, i, p) == i + Len(p) - 1 <= Len(s) /\ SubSeq(s, i, i + Len(p) - 1) = p

\* "p in s" for strings
HasSub(s, p) == \E i \in 1..(Len(s) + 1) : MatchAt(s, i, p)

\* str.replace(p, r): leftmost, non-overlapping, one pass
RECURSIVE ReplaceAll(_, _, _)
ReplaceAll(s, p, r) ==
  Let({i \in DOMAIN s : MatchAt(s, i, p)}, LAMBDA hits :
    IF hits = {} THEN s
    ELSE SubSeq(s, 1, MinOf(hits) - 1) \o r
         \o ReplaceAll(SubSeq(s, MinOf(hits) + Len(p), Len(s)), p, r))

\* str.split(sep) for a one-character separator: empty pieces are kept
RECURSIVE SplitOn(_, _)
SplitOn(s, c) ==
  IF \A i \in DOMAIN s : s[i] # c THEN <<s>>
  ELSE LET k == MinOf({i \in DOMAIN s : s[i] = c})
       IN <<SubSeq(s, 1, k - 1)>> \o SplitOn(SubSeq(s, k + 1, Len(s)), c)

\* str.split(): pieces between runs of whitespace, empty pieces dropped
SplitWords(s) == SelectSeq(SplitOn(s, " "), LAMBDA w : w # <<>>)

RECURSIVE JoinWith(_, _)
JoinWith(parts, sep) ==
  IF parts = <<>> THEN <<>>
  ELSE IF Len(parts) = 1 THEN parts[1]
  ELSE parts[1] \o sep \o JoinWith(Tail(parts), sep)

SeqToSet(q) == {q[i] : i \in DOMAIN q}

(***************************************************************************)
(* Paths (pathlib.Path on a POSIX filesystem without symbolic links)       *)
(***************************************************************************)
DotDot == <<".", ".">>
Dot == <<".">>

\* the parts pathlib keeps of a string: empty and "." components are dropped
PathParts(s) == SelectSeq(SplitOn(s, "/"), LAMBDA p : p # <<>> /\ p # Dot)

\* base / s : an absolute right operand replaces the base
PathJoin(base, s) ==
  IF StartsWith(s, <<"/">>) THEN PathParts(s) ELSE base \o PathParts(s)

\* Path.resolve(): ".." pops a segment, and stays at the root
RECURSIVE ResolveFrom(_, _)
ResolveFrom(done, rest) ==
  IF rest = <<>> THEN done
  ELSE IF Head(rest) = DotDot
       THEN ResolveFrom(IF done = <<>> THEN <<>> ELSE SubSeq(done, 1, Len(done) - 1),
                        Tail(rest))
       ELSE ResolveFrom(Append(done, Head(rest)), Tail(rest))

Resolve(p) == ResolveFrom(<<>>, p)

\* Path.relative_to(root) succeeds (raises no ValueError)
IsRelativeTo(p, root) == Len(root) <= Len(p) /\ SubSeq(p, 1, Len(root)) = root

RelativeParts(p, root) == SubSeq(p, Len(root) + 1, Len(p))

Parent(p) == IF p = <<>> THEN <<>> ELSE SubSeq(p, 1, Len(p) - 1)

Name(p) == IF p = <<>> THEN <<>> ELSE p[Len(p)]

(***************************************************************************)
(* sanitize_path_component: the empty string stands for None               *)
(***************************************************************************)
DangerousChars == {"<", ">", ":", "\"", "/", "\\", "|", "?", "*", "\t", "\n", "\r", "\f"}

sanitize_path_component(name) ==
  Let(StripChars(name, SpaceChars), LAMBDA stripped :
    IF stripped = <<>> THEN EmptyStr
    ELSE IF HasSub(stripped, DotDot) \/ StartsWith(stripped, <<"/">>)
            \/ StartsWith(stripped, <<"\\">>)
         THEN EmptyStr
    ELSE Let(StripChars(RemoveChars(stripped, DangerousChars), {".", " "}), LAMBDA cleaned :
           IF Len(cleaned) < 2 THEN EmptyStr ELSE cleaned))

(***************************************************************************)
(* build_new_path                                                          *)
(***************************************************************************)
NonePath == [ok |-> FALSE, raised |-> FALSE, path |-> <<>>]
RaisedPath == [ok |-> FALSE, raised |-> TRUE, path |-> <<>>]
SomePath(p) == [ok |-> TRUE, raised |-> FALSE, path |-> p]

\* re.sub(open \s* close, '', s)
\* length of the run of whitespace that starts at position i of s
SpaceRunAt(s, i) ==
  LET stops == {j \in i..Len(s) : s[j] \notin SpaceChars}
  IN IF stops = {} THEN Len(s) + 1 - i ELSE MinOf(stops) - i

SpaceRun(s) == SpaceRunAt(s, 1)

\* the position of the close bracket of open \s* close starting at i, 0 when none
EmptyBracketEnd(s, i, open, close) ==
  LET j == i + 1 + SpaceRunAt(s, i + 1)
  IN IF s[i] = open /\ j <= Len(s) /\ s[j] = close THEN j ELSE 0

RECURSIVE DropEmptyBrackets(_, _, _)
DropEmptyBrackets(s, open, close) ==
  Let({i \in DOMAIN s : EmptyBracketEnd(s, i, open, close) # 0}, LAMBDA hits :
    IF hits = {} THEN s
    ELSE SubSeq(s, 1, MinOf(hits) - 1)
         \o DropEmptyBrackets(SubSeq(s, EmptyBracketEnd(s, MinOf(hits), open, close) + 1,
                                     Len(s)), open, close))

\* length of the match of \s+-\s+(?=-|/|$) at the start of s, 0 when none
DanglingDashLen(s) ==
  Let(SpaceRun(s), LAMBDA a :
    Let(SubSeq(s, a + 2, Len(s)), LAMBDA afterDash :
      Let(SpaceRun(afterDash), LAMBDA b :
        IF a >= 1 /\ a + 1 <= Len(s) /\ s[a + 1] = "-" /\ b >= 1
           /\ (b = Len(afterDash) \/ afterDash[b + 1] \in {"-", "/"})
        THEN a + 1 + b ELSE 0)))

\* re.sub(r'\s+-\s+(?=-|/|$)', '', s)
RECURSIVE DropDanglingDash(_)
DropDanglingDash(s) ==
  Let({i \in DOMAIN s : DanglingDashLen(SubSeq(s, i, Len(s))) > 0}, LAMBDA hits :
    IF hits = {} THEN s
    ELSE Let(MinOf(hits), LAMBDA i :
           SubSeq(s, 1, i - 1)
           \o DropDanglingDash(SubSeq(s, i + DanglingDashLen(SubSeq(s, i, Len(s))),
                                      Len(s)))))

\* re.sub(r'/+', '/', s): a slash that follows a slash is dropped
SqueezeSlashes(s) ==
  LET keep == {i \in DOMAIN s : ~(s[i] = "/" /\ i > 1 /\ s[i - 1] = "/")}
      idx == [k \in 1..Cardinality(keep) |->
                CHOOSE i \in keep : Cardinality({j \in keep : j < i}) = k - 1]
  IN [k \in 1..Cardinality(keep) |-> s[idx[k]]]

\* re.sub(r'\s{2,}', ' ', s): a space that follows a space is dropped
SqueezeSpaces(s) ==
  LET keep == {i \in DOMAIN s : ~(s[i] \in SpaceChars /\ i > 1 /\ s[i - 1] \in SpaceChars)}
      idx == [k \in 1..Cardinality(keep) |->
                CHOOSE i \in keep : Cardinality({j \in keep : j < i}) = k - 1]
  IN [k \in 1..Cardinality(keep) |-> s[idx[k]]]

TagAuthor == <<"{","a","u","t","h","o","r","}">>
TagTitle == <<"{","t","i","t","l","e","}">>
TagSeries == <<"{","s","e","r","i","e","s","}">>
TagSeriesNum == <<"{","s","e","r","i","e","s","_","n","u","m","}">>
TagNarrator == <<"{","n","a","r","r","a","t","o","r","}">>
TagYear == <<"{","y","e","a","r","}">>
TagEdition == <<"{","e","d","i","t","i","o","n","}">>
TagVariant == <<"{","v","a","r","i","a","n","t","}">>

DefaultTemplate == TagAuthor \o <<"/">> \o TagTitle

RECURSIVE JoinParts(_, _)
JoinParts(base, parts) ==
  IF parts = <<>> THEN base ELSE JoinParts(PathJoin(base, Head(parts)), Tail(parts))

\* " [x]" / " (x)" / " {x}" appended to a folder name
Tagged(name, open, value, close) == name \o <<" ", open>> \o value \o <<close>>

\* lines 580-611: the title folder name
TitleFolder(safe_title, safe_series, series_num, narrator, year, edition, variant, config) ==
  Let(IF config.series_grouping /\ safe_series # <<>> /\ series_num # <<>>
      THEN series_num \o <<" ", "-", " ">> \o safe_title
      ELSE safe_title, LAMBDA t1 :
  Let(IF variant # <<>>
      THEN Let(sanitize_path_component(variant), LAMBDA safe_variant :
             IF safe_variant # <<>> THEN Tagged(t1, "[", safe_variant, "]") ELSE t1)
      ELSE IF edition # <<>>
      THEN Let(sanitize_path_component(edition), LAMBDA safe_edition :
             IF safe_edition # <<>> THEN Tagged(t1, "[", safe_edition, "]") ELSE t1)
      ELSE t1, LAMBDA t2 :
  Let(IF year # <<>> /\ edition = <<>> /\ variant = <<>>
      THEN Tagged(t2, "(", year, ")") ELSE t2, LAMBDA t3 :
  IF narrator = <<>> THEN t3
  ELSE Let(sanitize_path_component(narrator), LAMBDA safe_narrator :
         IF safe_narrator = <<>> THEN t3
         ELSE IF config.series_grouping THEN Tagged(t3, "{", safe_narrator, "}")
         ELSE Tagged(t3, "(", safe_narrator, ")")))))

\* lines 613-653: the custom template, after the substitutions and clean-ups
CustomPathStr(safe_author, safe_title, safe_series, series_num, narrator, year, edition, variant, config) ==
  LET s1 == ReplaceAll(config.custom_naming_template, TagAuthor, safe_author)
      s2 == ReplaceAll(s1, TagTitle, safe_title)
      s3 == ReplaceAll(s2, TagSeries, safe_series)
      s4 == ReplaceAll(s3, TagSeriesNum, series_num)
      s5 == ReplaceAll(s4, TagNarrator, sanitize_path_component(narrator))
      s6 == ReplaceAll(s5, TagYear, year)
      s7 == ReplaceAll(s6, TagEdition, sanitize_path_component(edition))
      s8 == ReplaceAll(s7, TagVariant, sanitize_path_component(variant))
      c1 == DropEmptyBrackets(s8, "(", ")")
      c2 == DropEmptyBrackets(c1, "[", "]")
      c3 == DropEmptyBrackets(c2, "{", "}")
      c4 == DropDanglingDash(c3)
      c5 == SqueezeSlashes(c4)
      c6 == SqueezeSpaces(c5)
  IN StripChars(c6, {" ", "/"})

CustomParts(path_str) ==
  LET pieces == SplitOn(path_str, "/")
      trimmed == [i \in DOMAIN pieces |-> StripChars(pieces[i], SpaceChars)]
  IN SelectSeq(trimmed, LAMBDA p : p # <<>>)

\* build_new_path without its post-check: what the resolved path is accepted as
PostCheckNone(lib_path, result_path) == SomePath(Resolve(result_path))

\* lines 665-684: the containment and depth post-check

PostCheck(lib_path, result_path) ==
  Let(Resolve(result_path), LAMBDA r :
    Let(Resolve(lib_path), LAMBDA root :
      IF ~IsRelativeTo(r, root) THEN NonePath
      ELSE IF Len(RelativeParts(r, root)) < 1 THEN NonePath
      ELSE SomePath(r)))

\* lines 613-663: the path before the post-check, by naming format
NamedPath(safe_author, safe_title, safe_series, series_num, narrator, year, edition, variant, config) ==
  IF config.naming_format = "custom"
  THEN \* str.replace(tag, None) raises TypeError
       IF \/ (narrator # <<>> /\ sanitize_path_component(narrator) = <<>>)
          \/ (edition # <<>> /\ sanitize_path_component(edition) = <<>>)
          \/ (variant # <<>> /\ sanitize_path_component(variant) = <<>>)
       THEN RaisedPath
       ELSE SomePath(CustomParts(CustomPathStr(safe_author, safe_title, safe_series,
                                   series_num, narrator, year, edition, variant, config)))
  ELSE Let(TitleFolder(safe_title, safe_series, series_num, narrator, year, edition,
                       variant, config), LAMBDA title_folder :
         IF config.naming_format = "author - title"
         THEN SomePath(<<safe_author \o <<" ", "-", " ">> \o title_folder>>)
         ELSE IF config.series_grouping /\ safe_series # <<>>
         THEN SomePath(<<safe_author, safe_series, title_folder>>)
         ELSE SomePath(<<safe_author, title_folder>>))

build_new_path(lib_path, author, title, series, series_num, narrator, year, edition, variant, config) ==
  Let(sanitize_path_component(author), LAMBDA safe_author :
  Let(sanitize_path_component(title), LAMBDA safe_title :
    IF safe_author = <<>> \/ safe_title = <<>> THEN NonePath
    ELSE Let(NamedPath(safe_author, safe_title,
                       IF series # <<>> THEN sanitize_path_component(series) ELSE <<>>,
                       series_num, narrator, year, edition, variant, config), LAMBDA named :
           IF named.raised THEN RaisedPath
           ELSE IF named.path = <<>> THEN NonePath
           ELSE PostCheck(lib_path, JoinParts(lib_path, named.path)))))

(***************************************************************************)
(* Regular expressions (module re), as far as the code's patterns need:    *)
(* a pattern is a tree; Ends(r, s, i) is the set of positions where a      *)
(* match of r that starts at position i of s can end.  Patterns compiled   *)
(* with re.IGNORECASE are written in lower case and applied to Lower(s).   *)
(***************************************************************************)
Lit(str) == [t |-> "lit", s |-> str]
Cls(cs) == [t |-> "cls", cs |-> cs]
NCls(cs) == [t |-> "ncls", cs |-> cs]
Cat(items) == [t |-> "cat", items |-> items]
Alt(items) == [t |-> "alt", items |-> items]
Rep(r, lo, hi) == [t |-> "rep", r |-> r, lo |-> lo, hi |-> hi]
Star(r) == Rep(r, 0, -1)
Plus(r) == Rep(r, 1, -1)
Opt(r) == Rep(r, 0, 1)
Bol == [t |-> "bol"]
Eol == [t |-> "eol"]
Wb == [t |-> "wb"]
AnyChar == NCls({"\n"})
Digit == Cls(DigitChars)
Space == Cls(SpaceChars)
IsWordAt(s, i) == i >= 1 /\ i <= Len(s) /\ s[i] \in WordChars

RECURSIVE Ends(_, _, _)
RECURSIVE CatEnds(_, _, _)
RECURSIVE RepEnds(_, _, _, _, _)

CatEnds(items, s, from) ==
  IF items = <<>> \/ from = {} THEN from
  ELSE CatEnds(Tail(items), s, UNION {Ends(Head(items), s, p) : p \in from})

\* positions reachable after count, count+1, ... repetitions of r.r from cur
RepEnds(r, s, cur, count, acc) ==
  LET acc2 == IF count >= r.lo THEN acc \cup cur ELSE acc IN
  IF cur = {} \/ count = r.hi \/ (count >= r.lo /\ cur \subseteq acc) THEN acc2
  ELSE RepEnds(r, s, UNION {Ends(r.r, s, p) : p \in cur}, count + 1, acc2)

Ends(r, s, i) ==
  CASE r.t = "lit" -> IF MatchAt(s, i, r.s) THEN {i + Len(r.s)} ELSE {}
    [] r.t = "cls" -> IF i <= Len(s) /\ s[i] \in r.cs THEN {i + 1} ELSE {}
    [] r.t = "ncls" -> IF i <= Len(s) /\ s[i] \notin r.cs THEN {i + 1} ELSE {}
    [] r.t = "cat" -> CatEnds(r.items, s, {i})
    [] r.t = "alt" -> UNION {Ends(r.items[k], s, i) : k \in DOMAIN r.items}
    [] r.t = "rep" -> RepEnds(r, s, {i}, 0, {})
    [] r.t = "bol" -> IF i = 1 THEN {i} ELSE {}
    [] r.t = "eol" -> IF i = Len(s) + 1 THEN {i} ELSE {}
    [] r.t = "wb" -> IF IsWordAt(s, i - 1) # IsWordAt(s, i) THEN {i} ELSE {}

\* re.search(r, s) is not None
Search(r, s) == \E i \in 1..(Len(s) + 1) : Ends(r, s, i) # {}

\* re.match(r, s) is not None
Match(r, s) == Ends(r, s, 1) # {}

\* re.search(r, s, re.IGNORECASE) for a pattern written in lower case
SearchI(r, s) == Search(r, Lower(s))

(***************************************************************************)
(* Issue detection: analyze_author, analyze_title, clean_title             *)
(***************************************************************************)
\* any(re.search(p, s) for p in patterns)
AnySearch(patterns, s) == \E k \in DOMAIN patterns : Search(patterns[k], s)

AnyMatch(patterns, s) == \E k \in DOMAIN patterns : Match(patterns[k], s)

\* re.sub(r, '', s) for the patterns below, whose greedy match is the longest one
RECURSIVE SubRemove(_, _, _)
SubRemove(r, s, i) ==
  Let({j \in i..Len(s) : Ends(r, s, j) \ {j} # {}}, LAMBDA hits :
    IF hits = {} THEN SubSeq(s, i, Len(s))
    ELSE Let(MinOf(hits), LAMBDA j :
           SubSeq(s, i, j - 1) \o SubRemove(r, s, MaxOf(Ends(r, s, j) \ {j}))))

AuthorSystemFolders ==
  {
   <<"m","e","t","a","d","a","t","a">>, <<"t","m","p">>, <<"t","e","m","p">>, <<"c","a","c","h","e">>, <<"c","o","n","f","i","g">>, <<"d","a","t","a">>,
   <<"l","o","g","s">>, <<"l","o","g">>, <<"b","a","c","k","u","p">>, <<"b","a","c","k","u","p","s">>, <<"o","l","d">>, <<"n","e","w">>,
   <<"t","e","s","t">>, <<"t","e","s","t","s">>, <<"s","a","m","p","l","e">>, <<"s","a","m","p","l","e","s">>, <<".","t","h","u","m","b","n","a","i","l","s">>, <<"t","h","u","m","b","n","a","i","l","s">>,
   <<"c","o","v","e","r","s">>, <<"i","m","a","g","e","s">>, <<"a","r","t","w","o","r","k">>, <<"a","r","t">>, <<"e","x","t","r","a","s">>, <<"b","o","n","u","s">>,
   <<"m","i","s","c">>, <<"o","t","h","e","r">>, <<"v","a","r","i","o","u","s">>, <<"u","n","k","n","o","w","n">>, <<"u","n","s","o","r","t","e","d">>, <<"d","o","w","n","l","o","a","d","s">>,
   <<"i","n","c","o","m","i","n","g">>, <<"p","r","o","c","e","s","s","i","n","g">>, <<"c","o","m","p","l","e","t","e","d">>, <<"d","o","n","e">>, <<"f","a","i","l","e","d">>, <<"s","t","r","e","a","m","s">>,
   <<"c","h","a","p","t","e","r","s">>, <<"p","a","r","t","s">>, <<"d","i","s","c">>, <<"d","i","s","k">>, <<"c","d">>, <<"d","v","d">> }
NotFirstNames ==
  {
   <<"l","a","s","t">>, <<"f","i","r","s","t">>, <<"f","i","n","a","l">>, <<"d","a","r","k">>, <<"s","h","a","d","o","w">>, <<"n","i","g","h","t">>,
   <<"b","l","o","o","d">>, <<"d","e","a","t","h">>, <<"c","i","t","y">>, <<"h","o","u","s","e">>, <<"w","o","r","l","d">>, <<"k","i","n","g","d","o","m">>,
   <<"e","m","p","i","r","e">>, <<"w","a","r">>, <<"g","a","m","e">>, <<"f","i","r","e">>, <<"i","c","e">>, <<"s","t","o","r","m">>,
   <<"t","h","e">>, <<"a">>, <<"a","n">>, <<"o","f">>, <<"a","n","d">>, <<"i","n">>,
   <<"t","o">>, <<"f","o","r">>, <<"n","e","w">>, <<"o","l","d">>, <<"b","l","a","c","k">>, <<"w","h","i","t","e">>,
   <<"r","e","d">>, <<"b","l","u","e">>, <<"g","r","e","e","n">>, <<"g","o","l","d","e","n">>, <<"l","o","s","t">>, <<"f","o","r","g","o","t","t","e","n">>,
   <<"h","i","d","d","e","n">>, <<"s","e","c","r","e","t">>, <<"a","n","c","i","e","n","t">>, <<"e","t","e","r","n","a","l">> }
NotSurnames ==
  {
   <<"c","h","a","n","c","e","s">>, <<"s","e","c","r","e","t","s">>, <<"l","i","e","s">>, <<"d","r","e","a","m","s">>, <<"t","a","l","e","s">>, <<"c","h","r","o","n","i","c","l","e","s">>,
   <<"s","t","o","r","i","e","s">>, <<"w","i","s","h","e","s">>, <<"m","e","m","o","r","i","e","s">>, <<"s","h","a","d","o","w","s">>, <<"n","i","g","h","t","s">>, <<"d","a","y","s">>,
   <<"y","e","a","r","s">>, <<"w","a","r","s">>, <<"g","a","m","e","s">>, <<"f","i","r","e","s">>, <<"s","t","o","r","m","s">>, <<"k","i","n","g","d","o","m","s">>,
   <<"e","m","p","i","r","e","s">>, <<"w","o","r","l","d","s">>, <<"h","o","u","s","e","s">>, <<"c","i","t","i","e","s">>, <<"d","e","a","t","h","s">>, <<"l","i","v","e","s">>,
   <<"l","o","v","e","s">>, <<"h","e","a","r","t","s">>, <<"s","o","u","l","s">>, <<"m","i","n","d","s">>, <<"s","t","a","r","s">>, <<"m","o","o","n","s">>,
   <<"s","u","n","s">>, <<"g","o","d","s">>, <<"d","e","m","o","n","s">>, <<"a","n","g","e","l","s">>, <<"d","r","a","g","o","n","s">>, <<"k","i","n","g","s">>,
   <<"q","u","e","e","n","s">>, <<"l","o","r","d","s">>, <<"p","r","i","n","c","e","s">>, <<"w","i","t","c","h","e","s">>, <<"w","i","z","a","r","d","s">> }
AuthorTitleWords ==
  {
   <<"t","h","e">>, <<"o","f">>, <<"a","n","d">>, <<"a">>, <<"i","n">>, <<"t","o">>,
   <<"f","o","r">>, <<"b","o","o","k">>, <<"s","e","r","i","e","s">>, <<"v","o","l","u","m","e">>, <<"l","a","s","t">>, <<"f","i","r","s","t">>,
   <<"f","i","n","a","l">>, <<"d","a","r","k">>, <<"s","h","a","d","o","w">>, <<"n","i","g","h","t">>, <<"b","l","o","o","d">>, <<"d","e","a","t","h">>,
   <<"c","i","t","y">>, <<"h","o","u","s","e">>, <<"w","o","r","l","d">>, <<"k","i","n","g","d","o","m">>, <<"e","m","p","i","r","e">>, <<"w","a","r">>,
   <<"g","a","m","e">>, <<"f","i","r","e">>, <<"i","c","e">>, <<"s","t","o","r","m">>, <<"k","i","n","g">>, <<"q","u","e","e","n">>,
   <<"l","o","r","d">>, <<"l","a","d","y">>, <<"p","r","i","n","c","e">>, <<"d","r","a","g","o","n">>, <<"c","h","a","n","c","e","s">>, <<"s","e","c","r","e","t","s">>,
   <<"l","i","e","s">>, <<"d","r","e","a","m","s">>, <<"t","a","l","e","s">>, <<"c","h","r","o","n","i","c","l","e","s">> }
name_patterns ==
  <<
   Cat(<<Bol, Cls(UpperChars), Plus(Cls(LowerChars)), Plus(Cls(SpaceChars)), Cls(UpperChars), Plus(Cls(LowerChars)), Eol>>),
   Cat(<<Bol, Cls(UpperChars), Plus(Cls(LowerChars)), Plus(Cls(SpaceChars)), Cls(UpperChars), Plus(Cls(LowerChars)), Plus(Cls(SpaceChars)), Cls(UpperChars), Plus(Cls(LowerChars)), Eol>>),
   Cat(<<Bol, Cls(UpperChars), Lit(<<".">>), Star(Cls(SpaceChars)), Cls(UpperChars), Plus(Cls(LowerChars)), Eol>>),
   Cat(<<Bol, Cls(UpperChars), Plus(Cls(LowerChars)), Plus(Cls(SpaceChars)), Cls(UpperChars), Lit(<<".">>), Star(Cls(SpaceChars)), Cls(UpperChars), Plus(Cls(LowerChars)), Eol>>),
   Cat(<<Bol, Cls(UpperChars), Plus(Cls(LowerChars)), Lit(<<",">>), Plus(Cls(SpaceChars)), Cls(UpperChars), Plus(Cls(LowerChars)), Eol>>),
   Cat(<<Bol, Cls(UpperChars), Plus(Cls(LowerChars)), Eol>>),
   Cat(<<Bol, Cls(UpperChars), Lit(<<".">>), Plus(Cat(<<Cls(UpperChars), Lit(<<".">>)>>)), Star(Cls(SpaceChars)), Cls(UpperChars), Plus(Cls(LowerChars)), Eol>>),
   Cat(<<Bol, Cls(UpperChars), Plus(Cls(LowerChars)), Plus(Cls(SpaceChars)), Cls(UpperChars), Lit(<<".">>), Plus(Cat(<<Cls(UpperChars), Lit(<<".">>)>>)), Star(Cls(SpaceChars)), Cls(UpperChars), Plus(Cls(LowerChars)), Eol>>),
   Cat(<<Bol, Cls(UpperChars), Plus(Cls(LowerChars)), Plus(Cls(SpaceChars)), Cls(UpperChars), Lit(<<".">>), Cls(UpperChars), Lit(<<".">>), Star(Cls(SpaceChars)), Cls(UpperChars), Plus(Cls(LowerChars)), Eol>>),
   Cat(<<Bol, Cls(UpperChars), Plus(Cls(LowerChars)), Plus(Cls(SpaceChars)), Cls(UpperChars), Lit(<<".">>), Star(Cls(SpaceChars)), Alt(<<Lit(<<"L","e">>), Lit(<<"D","e">>), Lit(<<"V","o","n">>), Lit(<<"V","a","n">>), Lit(<<"L","a">>), Lit(<<"D","u">>)>>), Plus(Cls(SpaceChars)), Cls(UpperChars), Plus(Cls(LowerChars)), Eol>>),
   Cat(<<Bol, Cls(UpperChars), Plus(Cls(LowerChars)), Plus(Cls(SpaceChars)), Alt(<<Lit(<<"L","e">>), Lit(<<"D","e">>), Lit(<<"V","o","n">>), Lit(<<"V","a","n">>), Lit(<<"L","a">>), Lit(<<"D","u">>)>>), Plus(Cls(SpaceChars)), Cls(UpperChars), Plus(Cls(LowerChars)), Eol>>) >>
RxYearInAuthor == Cat(<<Wb, Alt(<<Cat(<<Lit(<<"1","9">>), Rep(Cls(DigitChars), 2, 2)>>), Cat(<<Lit(<<"2","0">>), Cls({"0","1","2"}), Cls(DigitChars)>>)>>), Wb>>)
RxLastFirst == Cat(<<Bol, Cls(UpperChars), Plus(Cls(LowerChars)), Lit(<<",">>), Plus(Cls(SpaceChars)), Cls(UpperChars), Plus(Cls(LowerChars))>>)
RxFormatJunk == Alt(<<Cat(<<Lit(<<".">>), Alt(<<Lit(<<"e","p","u","b">>), Lit(<<"p","d","f">>), Lit(<<"m","p","3">>), Lit(<<"m","4","b">>)>>)>>), Cls({"[","]","{","}"})>>)
RxNarratorInAuthor == Cat(<<Star(Cls(SpaceChars)), Lit(<<"-">>), Star(Cls(SpaceChars)), Cls(UpperChars), Plus(Cls(LowerChars)), Plus(Cls(SpaceChars)), Cls(UpperChars), Plus(Cls(LowerChars)), Eol>>)
RxJustNumbers == Cat(<<Bol, Plus(Cls(DigitChars)), Eol>>)
RxStartsWithNumber == Cat(<<Bol, Plus(Cls(DigitChars)), Cls(SpaceChars)>>)
RxAuthorBookNumber == Cat(<<Wb, Alt(<<Cat(<<Lit(<<"b","o","o","k">>), Star(Cls(SpaceChars)), Cls(DigitChars)>>), Cat(<<Lit(<<"p","a","r","t">>), Star(Cls(SpaceChars)), Cls(DigitChars)>>), Cat(<<Lit(<<"v","o","l","u","m","e">>), Star(Cls(SpaceChars)), Cls(DigitChars)>>)>>)>>)

\* looks_like_name after the word checks of lines 2228-2243, and the issue they add
AuthorNameCheck(author) ==
  Let(SplitWords(Lower(author)), LAMBDA author_words :
  Let(AnyMatch(name_patterns, author), LAMBDA structural :
    IF structural /\ Len(author_words) >= 2
    THEN IF author_words[1] \in NotFirstNames /\ author_words[Len(author_words)] \in NotSurnames
         THEN [looks |-> FALSE, issues |-> <<"title_fragment_not_name">>]
         ELSE IF author_words[Len(author_words)] \in NotSurnames
         THEN [looks |-> FALSE, issues |-> <<"not_a_surname">>]
         ELSE [looks |-> TRUE, issues |-> <<>>]
    ELSE [looks |-> structural, issues |-> <<>>]))

IssueIf(cond, tag) == IF cond THEN <<tag>> ELSE <<>>

analyze_author(author) ==
  IF Lower(author) \in AuthorSystemFolders THEN <<"system_folder_not_author">>
  ELSE Let(AuthorNameCheck(author), LAMBDA chk :
          IssueIf(Search(RxYearInAuthor, author), "year_in_author")
          \o chk.issues
          \o IssueIf(~chk.looks /\ \E w \in SeqToSet(SplitWords(Lower(author))) :
                                      w \in AuthorTitleWords,
                     "title_words_in_author")
          \o IssueIf(~chk.looks /\ Len(author) > 3 /\ Len(SplitWords(author)) >= 2,
                     "not_a_name_pattern")
          \o IssueIf(Match(RxLastFirst, author), "lastname_firstname_format")
          \o IssueIf(SearchI(RxFormatJunk, author), "format_junk_in_author")
          \o IssueIf(Search(RxNarratorInAuthor, author), "possible_narrator_in_author")
          \o IssueIf(Match(RxJustNumbers, author), "author_is_just_numbers")
          \o IssueIf(Match(RxStartsWithNumber, author), "author_starts_with_number")
          \o IssueIf(SearchI(RxAuthorBookNumber, author), "author_contains_book_number"))

multi_book_patterns ==
  <<
   Cat(<<Lit(<<"c","o","m","p","l","e","t","e">>), Plus(Cls(SpaceChars)), Lit(<<"s","e","r","i","e","s">>)>>),
   Cat(<<Lit(<<"c","o","m","p","l","e","t","e">>), Plus(Cls(SpaceChars)), Lit(<<"a","u","d","i","o">>), Plus(Cls(SpaceChars)), Lit(<<"c","o","l","l","e","c","t","i","o","n">>)>>),
   Cat(<<Plus(Cls(DigitChars)), Opt(Cls(SpaceChars \cup {"-"})), Lit(<<"b","o","o","k">>), Plus(Cls(SpaceChars)), Alt(<<Lit(<<"s","e","t">>), Lit(<<"b","o","x">>), Lit(<<"c","o","l","l","e","c","t","i","o","n">>)>>)>>),
   Cat(<<Plus(Cls(DigitChars)), Opt(Cls(SpaceChars \cup {"-"})), Lit(<<"b","o","o","k">>), Plus(Cls(SpaceChars)), Lit(<<"a","n","d">>), Plus(Cls(SpaceChars)), Lit(<<"a","u","d","i","o">>)>>),
   Cat(<<Lit(<<"a","l","l">>), Plus(Cls(SpaceChars)), Plus(Cls(DigitChars)), Plus(Cls(SpaceChars)), Lit(<<"b","o","o","k","s">>)>>),
   Cat(<<Lit(<<"b","o","o","k">>), Opt(Lit(<<"s">>)), Plus(Cls(SpaceChars)), Plus(Cls(DigitChars)), Opt(Cls(SpaceChars \cup {"-"})), Plus(Cls(DigitChars))>>) >>
RxYearInTitle == Cat(<<Opt(Lit(<<"(">>)), Alt(<<Cat(<<Lit(<<"1","9">>), Cls({"5","6","7","8","9"}), Cls(DigitChars)>>), Cat(<<Lit(<<"2","0">>), Cls({"0","1","2"}), Cls(DigitChars)>>)>>), Opt(Lit(<<")">>))>>)
RxQualityInfo == Alt(<<Cat(<<Plus(Cls(DigitChars)), Lit(<<"k">>), Wb>>), Cat(<<Plus(Cls(DigitChars)), Lit(<<"k","b","p","s">>)>>), Cat(<<Plus(Cls(DigitChars)), Lit(<<"m","b">>)>>), Cat(<<Plus(Cls(DigitChars)), Lit(<<"g","b">>)>>)>>)
RxNarratorInTitle == Cat(<<Lit(<<"(">>), Cls(UpperChars), Plus(Cls(LowerChars)), Lit(<<")">>), Star(Cls(SpaceChars)), Eol>>)
RxDuration == Cat(<<Rep(Cls(DigitChars), 1, 2), Lit(<<".">>), Rep(Cls(DigitChars), 2, 2), Lit(<<".">>), Rep(Cls(DigitChars), 2, 2)>>)
RxSeriesPrefix == Cat(<<Bol, Plus(AnyChar), Plus(Cls(SpaceChars)), Lit(<<"b","o","o","k">>), Plus(Cls(SpaceChars)), Plus(Cls(DigitChars)), Star(Cls(SpaceChars)), Cls({"-",":"}), Star(Cls(SpaceChars)), Plus(AnyChar)>>)
RxCatalogId == Cat(<<Lit(<<"[">>), Rep(Cls(DigitChars), 4, -1), Lit(<<"]">>)>>)

\* re.search(rf'\bby\s+{re.escape(author)}\b', title, re.IGNORECASE)
RxByAuthor(author) == Cat(<<Wb, Lit(<<"b", "y">>), Plus(Space), Lit(Lower(author)), Wb>>)

TitleStopWords == {<<"t","h","e">>, <<"a">>, <<"o","f">>, <<"a","n","d">>}

analyze_title(title, author) ==
  IF AnySearch(multi_book_patterns, Lower(title)) THEN <<"multi_book_collection">>
  ELSE IssueIf(Len(SplitWords(Lower(author))) >= 2 /\ HasSub(Lower(title), Lower(author)),
               "author_in_title")
       \o IssueIf(Len(SplitWords(Lower(author))) >= 2 /\ SearchI(RxByAuthor(author), title),
                  "by_author_in_title")
       \o IssueIf(Search(RxYearInTitle, title), "year_in_title")
       \o IssueIf(SearchI(RxQualityInfo, title), "quality_info_in_title")
       \o IssueIf(Search(RxNarratorInTitle, title), "possible_narrator_in_title")
       \o IssueIf(Search(RxDuration, title), "duration_in_title")
       \o IssueIf(SearchI(RxSeriesPrefix, title), "series_prefix_format")
       \o IssueIf(Search(RxCatalogId, title), "catalog_id_in_title")
       \o IssueIf(/\ Len(SplitWords(title)) = 2
                  /\ \A w \in SeqToSet(SplitWords(title)) :
                        w[1] \in UpperChars /\ Lower(w) \notin TitleStopWords,
                  "title_looks_like_author")

JUNK_PATTERNS ==
  <<
   Lit(<<"[","b","i","t","s","e","a","r","c","h",".","t","o","]">>),
   Lit(<<"[","r","a","r","b","g","]">>),
   Lit(<<"(","u","n","a","b","r","i","d","g","e","d",")">>),
   Lit(<<"(","a","b","r","i","d","g","e","d",")">>),
   Lit(<<"(","a","u","d","i","o","b","o","o","k",")">>),
   Lit(<<"(","a","u","d","i","o",")">>),
   Lit(<<"(","g","r","a","p","h","i","c","a","u","d","i","o",")">>),
   Lit(<<"(","u","k"," ","v","e","r","s","i","o","n",")">>),
   Lit(<<"(","u","s"," ","v","e","r","s","i","o","n",")">>),
   Lit(<<"[","e","n","]">>),
   Cat(<<Lit(<<"(","r">>), Plus(Cls(DigitChars)), Lit(<<".">>), Plus(Cls(DigitChars)), Lit(<<")">>)>>),
   Cat(<<Lit(<<"[">>), Plus(Cls(DigitChars)), Lit(<<"]">>)>>),
   Cat(<<Lit(<<"{">>), Plus(Cls(DigitChars)), Lit(<<"m","b","}">>)>>),
   Cat(<<Lit(<<"{">>), Plus(Cls(DigitChars)), Lit(<<".">>), Plus(Cls(DigitChars)), Lit(<<"g","b","}">>)>>),
   Cat(<<Plus(Cls(DigitChars)), Lit(<<"k">>), Plus(Cls(SpaceChars)), Plus(Cls(DigitChars)), Lit(<<".">>), Plus(Cls(DigitChars)), Lit(<<".">>), Plus(Cls(DigitChars))>>),
   Alt(<<Lit(<<"1","2","8","k">>), Lit(<<"6","4","k">>), Lit(<<"1","9","2","k">>), Lit(<<"3","2","0","k">>)>>),
   Cat(<<Lit(<<".">>), Alt(<<Cat(<<Lit(<<"e","p","u","b">>), Eol>>), Cat(<<Lit(<<"p","d","f">>), Eol>>), Cat(<<Lit(<<"m","o","b","i">>), Eol>>)>>)>>) >>

\* the issues clean_title reports: one per junk pattern still found after the
\* earlier patterns were removed (the tag stands for f"junk: {pattern}")
RECURSIVE CleanIssues(_, _)
CleanIssues(k, cleaned) ==
  IF k > Len(JUNK_PATTERNS) THEN <<>>
  ELSE IF SearchI(JUNK_PATTERNS[k], cleaned)
       THEN <<"junk">> \o CleanIssues(k + 1, SubRemove(JUNK_PATTERNS[k], Lower(cleaned), 1))
       ELSE CleanIssues(k + 1, cleaned)

clean_title_issues(title) == CleanIssues(1, title)

DISC_CHAPTER_PATTERNS ==
  <<
   Cat(<<Bol, Alt(<<Lit(<<"d","i","s","c">>), Lit(<<"d","i","s","k">>), Lit(<<"c","d">>), Lit(<<"p","a","r","t">>), Lit(<<"c","h","a","p","t","e","r">>), Lit(<<"c","h">>)>>), Star(Cls(SpaceChars)), Plus(Cls(DigitChars))>>),
   Cat(<<Bol, Plus(Cls(DigitChars)), Star(Cls(SpaceChars)), Cls({"-","_"}), Star(Cls(SpaceChars)), Alt(<<Lit(<<"d","i","s","c">>), Lit(<<"d","i","s","k">>), Lit(<<"c","d">>), Lit(<<"p","a","r","t">>), Lit(<<"c","h","a","p","t","e","r">>)>>)>>),
   Cat(<<Bol, Lit(<<"s","i","d","e">>), Star(Cls(SpaceChars)), Cls({"a","b","1","2"})>>),
   Cat(<<Plus(AnyChar), Star(Cls(SpaceChars)), Lit(<<"-">>), Star(Cls(SpaceChars)), Alt(<<Lit(<<"d","i","s","c">>), Lit(<<"d","i","s","k">>), Lit(<<"c","d">>)>>), Star(Cls(SpaceChars)), Plus(Cls(DigitChars)), Eol>>) >>
is_disc_chapter_folder(name) == AnySearch(DISC_CHAPTER_PATTERNS, Lower(name))

\* the dash class keeps its ASCII members only
book_folder_patterns ==
  <<
   Cat(<<Bol, Plus(Cls(DigitChars)), Star(Cls(SpaceChars)), Opt(Cls({"-",":","."})), Star(Cls(SpaceChars)), Cls(WordChars)>>),
   Cat(<<Bol, Opt(Lit(<<"#">>)), Plus(Cls(DigitChars)), Star(Cls(SpaceChars)), Cls({"-",":"})>>),
   Cat(<<Lit(<<"b","o","o","k">>), Star(Cls(SpaceChars)), Plus(Cls(DigitChars))>>),
   Cat(<<Lit(<<"v","o","l">>), Opt(Lit(<<"u","m","e">>)), Star(Cls(SpaceChars)), Plus(Cls(DigitChars))>>),
   Cat(<<Lit(<<"p","a","r","t">>), Star(Cls(SpaceChars)), Plus(Cls(DigitChars))>>) >>
RxTitleIsName == Cat(<<Bol, Cls(UpperChars), Alt(<<Cat(<<Plus(Cls(LowerChars)), Plus(Cls(SpaceChars)), Cls(UpperChars), Plus(Cls(LowerChars)), Eol>>), Cat(<<Lit(<<".">>), Star(Cls(SpaceChars)), Cls(UpperChars), Plus(Cls(LowerChars)), Eol>>), Cat(<<Plus(Cls(LowerChars)), Lit(<<",">>), Plus(Cls(SpaceChars)), Cls(UpperChars)>>)>>)>>)

(***************************************************************************)
(* is_drastic_author_change                                                *)
(***************************************************************************)
placeholder_authors ==
  {
   <<"u","n","k","n","o","w","n">>, <<"v","a","r","i","o","u","s">>, <<"v","a","r","i","o","u","s"," ","a","u","t","h","o","r","s">>, <<"v","a">>, <<"n","/","a">>, <<"n","o","n","e">>,
   <<"a","u","d","i","o","b","o","o","k">>, <<"a","u","d","i","o","b","o","o","k","s">>, <<"e","b","o","o","k">>, <<"e","b","o","o","k","s">>, <<"b","o","o","k">>, <<"b","o","o","k","s">>,
   <<"a","u","t","h","o","r">>, <<"a","u","t","h","o","r","s">>, <<"n","a","r","r","a","t","o","r">>, <<"u","n","t","i","t","l","e","d">>, <<"n","o"," ","a","u","t","h","o","r">> }

\* re.sub(r'[^\w\s]', ' ', name.lower()), split, tokens longer than one letter
get_name_parts(name) ==
  LET low == Lower(name)
      clean == [i \in DOMAIN low |->
                  IF low[i] \in WordChars \cup SpaceChars THEN low[i] ELSE " "]
  IN {p \in SeqToSet(SplitWords(clean)) : Len(p) > 1}

\* max(parts, key=len): with several longest tokens the one returned depends
\* on the iteration order of the set, so each of them is a possible result
LongestParts(parts) ==
  IF parts = {} THEN {EmptyStr}
  ELSE {p \in parts : \A q \in parts : Len(q) <= Len(p)}

\* the set of values is_drastic_author_change(old_author, new_author) can return
is_drastic_author_change(old_author, new_author) ==
  IF old_author = <<>> \/ new_author = <<>> THEN {FALSE}
  ELSE IF StripChars(Lower(old_author), SpaceChars) \in placeholder_authors THEN {FALSE}
  ELSE IF StripChars(Lower(old_author), SpaceChars)
          = StripChars(Lower(new_author), SpaceChars) THEN {FALSE}
  ELSE Let(get_name_parts(old_author), LAMBDA old_parts :
       Let(get_name_parts(new_author), LAMBDA new_parts :
         IF old_parts \cap new_parts = {}
         THEN {~(old_last # <<>> /\ new_last # <<>>
                 /\ (HasSub(new_last, old_last) \/ HasSub(old_last, new_last))) :
                 old_last \in LongestParts(old_parts), new_last \in LongestParts(new_parts)}
         ELSE {Cardinality(old_parts \cap new_parts) * 10
                 < 3 * MaxOf({Cardinality(old_parts), Cardinality(new_parts)})}))

(***************************************************************************)
(* extract_series_from_title: (series, number, title); the empty string    *)
(* stands for None, and for the number 0, which the callers treat alike    *)
(***************************************************************************)
SepChars == {":", " ", "-"}

\* str(int(digits)), with 0 as the empty string
RECURSIVE IntStr(_)
IntStr(digits) ==
  IF digits = <<>> THEN <<>>
  ELSE IF Head(digits) = "0" THEN IntStr(Tail(digits)) ELSE digits

\* the tail \s*[:\s-]+(.+)$ from position c: where group 3 starts, 0 when no match
SubtitleStart(s, c) ==
  LET cand == {d \in (c + 1)..Len(s) : \A k \in c..(d - 1) : s[k] \in SepChars}
  IN IF cand = {} THEN 0 ELSE CHOOSE d \in cand : \A e \in cand : e <= d

\* the tail \s*$ from position c
OnlySpaces(s, c) == \A k \in c..Len(s) : s[k] \in SpaceChars

TailOk(tail, s, c) ==
  CASE tail = "subtitle" -> SubtitleStart(s, c) # 0
    [] tail = "end" -> OnlySpaces(s, c)
    [] tail = "paren" -> c <= Len(s) /\ s[c] = ")" /\ OnlySpaces(s, c + 1)

\* ^ (.+?) mid (\d+) tail, group 1 starting at p0: the (a, b, c) of the match the
\* regex engine finds first (shortest group 1, longest number), <<>> when none
SeriesSplit(s, low, p0, mid, tail) ==
  LET cs(b) == {c \in Ends(Plus(Digit), low, b) : TailOk(tail, low, c)}
      bs(a) == {b \in Ends(mid, low, a) : cs(b) # {}}
  IN Let({a \in (p0 + 1)..(Len(s) + 1) : bs(a) # {}}, LAMBDA as :
       IF as = {} THEN <<>>
       ELSE Let(MinOf(as), LAMBDA a :
              Let(MaxOf(bs(a)), LAMBDA b : <<a, b, MaxOf(cs(b))>>)))

\* the first start of group 1, in the order the engine tries them, that matches
RECURSIVE FirstSplit(_, _, _, _, _)
FirstSplit(s, low, starts, mid, tail) ==
  IF starts = <<>> THEN <<>>
  ELSE Let(SeriesSplit(s, low, Head(starts), mid, tail), LAMBDA m :
         IF m # <<>> THEN <<Head(starts)>> \o m
         ELSE FirstSplit(s, low, Tail(starts), mid, tail))

\* (?:The\s+)? : after "the" and k spaces, most spaces first, then without it
TheStarts(low) ==
  IF StartsWith(low, <<"t", "h", "e", " ">>)
  THEN LET n == SpaceRun(SubSeq(low, 4, Len(low)))
       IN [k \in 1..n |-> 4 + (n - k + 1)] \o <<1>>
  ELSE <<1>>

MidSeriesBook == Cat(<<Star(Cls(SpaceChars)), Opt(Lit(<<"s","e","r","i","e","s">>)), Opt(Lit(<<",">>)), Star(Cls(SpaceChars)), Lit(<<"b","o","o","k">>), Plus(Cls(SpaceChars))>>)
MidHash == Cat(<<Star(Cls(SpaceChars)), Lit(<<"#">>)>>)
MidBook == Cat(<<Plus(Cls(SpaceChars)), Lit(<<"b","o","o","k">>), Plus(Cls(SpaceChars))>>)
MidParenBook == Cat(<<Star(Cls(SpaceChars)), Lit(<<"(","b","o","o","k">>), Plus(Cls(SpaceChars))>>)
RxTrailingSeries == Cat(<<Star(Cls(SpaceChars)), Lit(<<"s","e","r","i","e","s">>), Star(Cls(SpaceChars)), Eol>>)

Strip(s) == StripChars(s, SpaceChars)

\* re.sub(r'\s*Series\s*$', '', series, flags=re.IGNORECASE)
DropTrailingSeries(series) ==
  Let({i \in 1..(Len(series) + 1) : Ends(RxTrailingSeries, Lower(series), i) # {}},
      LAMBDA hits : IF hits = {} THEN series ELSE SubSeq(series, 1, MinOf(hits) - 1))

Group1(s, m) == SubSeq(s, m[1], m[2] - 1)
Group2(s, m) == SubSeq(s, m[3], m[4] - 1)
Group3(s, m) == SubSeq(s, SubtitleStart(s, m[4]), Len(s))

NoSeries(title) == [series |-> <<>>, num |-> <<>>, title |-> title]

\* the patterns of extract_series_from_title in the order they are tried: the
\* text between group 1 and the number, its case, the tail, and which groups
\* give the series and the title
SeriesPatterns ==
  << [mid |-> MidSeriesBook, icase |-> TRUE, the |-> TRUE, tail |-> "subtitle",
      series |-> "clean", title |-> 3],
     [mid |-> MidHash, icase |-> FALSE, the |-> FALSE, tail |-> "subtitle",
      series |-> "strip", title |-> 3],
     [mid |-> MidBook, icase |-> TRUE, the |-> FALSE, tail |-> "subtitle",
      series |-> "strip", title |-> 3],
     [mid |-> MidBook, icase |-> TRUE, the |-> FALSE, tail |-> "end",
      series |-> "strip", title |-> 1],
     [mid |-> MidHash, icase |-> FALSE, the |-> FALSE, tail |-> "end",
      series |-> "strip", title |-> 1],
     [mid |-> MidParenBook, icase |-> TRUE, the |-> FALSE, tail |-> "paren",
      series |-> "none", title |-> 1] >>

\* what a match m of pattern pat returns
SeriesOf(title, pat, m) ==
  [series |-> CASE pat.series = "clean" -> DropTrailingSeries(Strip(Group1(title, m)))
                [] pat.series = "strip" -> Strip(Group1(title, m))
                [] pat.series = "none" -> <<>>,
   num |-> IntStr(Group2(title, m)),
   title |-> IF pat.title = 3 THEN Strip(Group3(title, m)) ELSE Strip(Group1(title, m))]

RECURSIVE TrySeries(_, _, _)
TrySeries(title, low, k) ==
  IF k > Len(SeriesPatterns) THEN NoSeries(title)
  ELSE Let(FirstSplit(title, IF SeriesPatterns[k].icase THEN low ELSE title,
                      IF SeriesPatterns[k].the THEN TheStarts(low) ELSE <<1>>,
                      SeriesPatterns[k].mid, SeriesPatterns[k].tail), LAMBDA m :
         IF m # <<>> THEN SeriesOf(title, SeriesPatterns[k], m)
         ELSE TrySeries(title, low, k + 1))

extract_series_from_title(title) == TrySeries(title, Lower(title), 1)

(***************************************************************************)
(* The library tree on disk: a set of nodes, each a directory or a file.   *)
(* The operators are the pathlib / shutil calls the code makes; each       *)
(* mutating call yields [ok, fs], ok = FALSE when the call raises.         *)
(***************************************************************************)
Dir(p) == [path |-> p, file |-> FALSE]
File(p) == [path |-> p, file |-> TRUE]

is_dir(f, p) == p = <<>> \/ Dir(p) \in f
is_file(f, p) == File(p) \in f
exists(f, p) == is_dir(f, p) \/ is_file(f, p)

\* Path.iterdir(): the nodes directly below p
iterdir(f, p) == {n \in f : Len(n.path) = Len(p) + 1 /\ IsRelativeTo(n.path, p)}

\* p and everything below it
Tree(f, p) == {n \in f : IsRelativeTo(n.path, p)}

\* the nodes of the tree at p, relative to p
Content(f, p) == {[path |-> RelativeParts(n.path, p), file |-> n.file] : n \in Tree(f, p)}

\* PurePath.suffix and PurePath.stem of a name
suffix(name) ==
  LET dots == {i \in DOMAIN name : name[i] = "."}
  IN IF dots # {} /\ MaxOf(dots) > 1 /\ MaxOf(dots) < Len(name)
     THEN SubSeq(name, MaxOf(dots), Len(name)) ELSE <<>>

stem(name) == SubSeq(name, 1, Len(name) - Len(suffix(name)))

AUDIO_EXTENSIONS == {<<".","m","4","b">>, <<".","m","p","3">>, <<".","m","4","a">>, <<".","f","l","a","c">>, <<".","o","g","g">>, <<".","o","p","u","s">>, <<".","w","m","a">>, <<".","a","a","c">>}
EBOOK_EXTENSIONS == {<<".","e","p","u","b">>, <<".","p","d","f">>, <<".","m","o","b","i">>, <<".","a","z","w","3">>}

\* [f for f in p.iterdir() if f.is_file() and f.suffix.lower() in AUDIO_EXTENSIONS]
audio_files(f, p) ==
  {n \in iterdir(f, p) : n.file /\ Lower(suffix(Name(n.path))) \in AUDIO_EXTENSIONS}

subdirs(f, p) == {n \in iterdir(f, p) : ~n.file}

Ok(f) == [ok |-> TRUE, fs |-> f]
Raise(f) == [ok |-> FALSE, fs |-> f]

\* Path.mkdir(parents=True, exist_ok=True)
mkdir(f, p) ==
  IF \E k \in 1..Len(p) : is_file(f, SubSeq(p, 1, k)) THEN Raise(f)
  ELSE Ok(f \cup {Dir(SubSeq(p, 1, k)) : k \in 1..Len(p)})

\* Path.rmdir(): only an empty directory goes
rmdir(f, p) == IF Dir(p) \in f /\ iterdir(f, p) = {} THEN Ok(f \ {Dir(p)}) ELSE Raise(f)

\* the tree at src re-rooted at dst
Relocate(f, src, dst) ==
  (f \ Tree(f, src))
    \cup {[path |-> dst \o RelativeParts(n.path, src), file |-> n.file] : n \in Tree(f, src)}

\* Path.rename(dst), os.rename on one filesystem
rename(f, src, dst) ==
  IF ~exists(f, src) \/ ~is_dir(f, Parent(dst)) THEN Raise(f)
  ELSE IF src = dst THEN Ok(f)
  ELSE IF IsRelativeTo(dst, src) THEN Raise(f)
  ELSE IF is_dir(f, dst) /\ (is_file(f, src) \/ iterdir(f, dst) # {}) THEN Raise(f)
  ELSE IF is_file(f, dst) /\ is_dir(f, src) THEN Raise(f)
  ELSE Ok(Relocate(f \ Tree(f, dst), src, dst))

\* shutil.move(src, dst): into dst when dst is a directory; a directory is
\* copied (parents created) when the plain rename is refused
shutil_move(f, src, dst) ==
  Let(IF is_dir(f, dst) THEN Append(dst, Name(src)) ELSE dst, LAMBDA real :
    IF ~exists(f, src) THEN Raise(f)
    ELSE IF src = dst THEN Ok(f)
    ELSE IF is_dir(f, dst) /\ exists(f, real) THEN Raise(f)
    ELSE IF is_dir(f, src)
         THEN IF IsRelativeTo(real, src) \/ is_file(f, real) THEN Raise(f)
              ELSE Let(mkdir(f, Parent(real)), LAMBDA made :
                     IF made.ok THEN Ok(Relocate(made.fs, src, real)) ELSE Raise(f))
         ELSE IF ~is_dir(f, Parent(real)) THEN Raise(f)
              ELSE Ok(Relocate(f \ {File(real)}, src, real)))

\* the "clean up empty parent" step: rmdir when it exists and is empty, errors ignored
cleanup_parent(f, old_path) ==
  IF is_dir(f, Parent(old_path)) /\ iterdir(f, Parent(old_path)) = {} /\ Parent(old_path) # <<>>
  THEN f \ {Dir(Parent(old_path))} ELSE f

\* str(path) of an absolute path
PathStr(p) == IF p = <<>> THEN <<"/">> ELSE <<"/">> \o JoinWith(p, <<"/">>)

(***************************************************************************)
(* The database: books and history are keyed by row id, the queue is kept  *)
(* in insertion order.  A new row id is max(id) + 1 (INTEGER PRIMARY KEY). *)
(***************************************************************************)
NextId(ids) == IF ids = {} THEN 1 ELSE MaxOf(ids) + 1

\* SELECT id FROM books WHERE path = ? (path is UNIQUE)
BookAt(books, path) == {b \in DOMAIN books : books[b].path = path}

QueueIds(queue) == {queue[i].id : i \in DOMAIN queue}

\* SELECT id FROM queue WHERE book_id = ?
QueuedFor(queue, book_id) == {i \in DOMAIN queue : queue[i].book_id = book_id}

NewBook(path, author, title, status) ==
  [path |-> path, current_author |-> author, current_title |-> title,
   status |-> status, error_message |-> ""]

InsertBook(db, path, author, title, status) ==
  [db EXCEPT !.books = @ @@ (NextId(DOMAIN @) :> NewBook(path, author, title, status))]

\* INSERT INTO queue: iso tells an added_at written with datetime.isoformat()
\* from the CURRENT_TIMESTAMP default, which sorts before it on the same day
InsertQueue(db, book_id, reason, priority, iso) ==
  [db EXCEPT !.queue = Append(@, [id |-> NextId(QueueIds(@)), book_id |-> book_id,
                                  reason |-> reason, priority |-> priority, iso |-> iso])]

\* DELETE FROM queue WHERE id = ?
DeleteQueue(db, queue_id) ==
  [db EXCEPT !.queue = SelectSeq(@, LAMBDA q : q.id # queue_id)]

\* the UPDATE-or-INSERT of a detection that short-circuits the scan of a folder
MarkFolder(db, path, author, title, status) ==
  IF BookAt(db.books, path) # {}
  THEN [db EXCEPT !.books[CHOOSE b \in BookAt(db.books, path) : TRUE].status = status]
  ELSE InsertBook(db, path, author, title, status)

(***************************************************************************)
(* clean_search_title                                                      *)
(***************************************************************************)
\* re.sub(r, repl, s) from position i, matching on low (s, or s lower-cased
\* for IGNORECASE); lazy takes the shortest match at the leftmost start
RECURSIVE RegexSub(_, _, _, _, _, _)
RegexSub(r, s, low, i, repl, lazy) ==
  Let({j \in i..Len(s) : Ends(r, low, j) \ {j} # {}}, LAMBDA hits :
    IF hits = {} THEN SubSeq(s, i, Len(s))
    ELSE Let(MinOf(hits), LAMBDA j :
           Let(Ends(r, low, j) \ {j}, LAMBDA ends :
             SubSeq(s, i, j - 1) \o repl
             \o RegexSub(r, s, low, IF lazy THEN MinOf(ends) ELSE MaxOf(ends), repl, lazy))))

\* re.sub(r, repl, s), and the same with flags=re.IGNORECASE
RegexSubS(r, s, repl, lazy) == RegexSub(r, s, s, 1, repl, lazy)
RegexSubI(r, s, repl, lazy) == RegexSub(r, s, Lower(s), 1, repl, lazy)

clean_search_title(messy_name) ==
  LET c1 == RegexSubS(Cat(<<Lit(<<"[">>), Star(AnyChar), Lit(<<"]">>)>>), messy_name, <<>>, TRUE)
      c2 == RegexSubI(Cat(<<Lit(<<"(">>), Alt(<<Lit(<<"u","n","a","b","r","i","d","g","e","d">>), Lit(<<"a","b","r","i","d","g","e","d">>), Rep(Cls(DigitChars), 4, 4), Lit(<<"m","p","3">>), Lit(<<"m","4","b">>), Lit(<<"e","p","u","b">>), Lit(<<"p","d","f">>), Lit(<<"6","4","k">>), Lit(<<"1","2","8","k">>), Cat(<<Lit(<<"r">>), Plus(Cls(DigitChars)), Lit(<<".">>), Plus(Cls(DigitChars))>>)>>), Star(AnyChar), Lit(<<")">>)>>), c1, <<>>, TRUE)
      c3 == RegexSubI(Cat(<<Lit(<<".">>), Alt(<<Lit(<<"m","p","3">>), Lit(<<"m","4","b">>), Lit(<<"m","4","a">>), Lit(<<"e","p","u","b">>), Lit(<<"p","d","f">>), Lit(<<"m","o","b","i">>), Lit(<<"w","e","b","m">>), Lit(<<"o","p","u","s">>)>>), Eol>>), c2, <<>>, FALSE)
      c4 == RegexSubI(Cat(<<Plus(Cls(SpaceChars)), Lit(<<"b","y">>), Plus(Cls(SpaceChars)), Plus(Cls(WordChars \cup SpaceChars)), Eol>>), c3, <<>>, FALSE)
      c5 == RegexSubI(Cat(<<Wb, Opt(Cat(<<Lit(<<"f","u","l","l">>), Plus(Cls(SpaceChars))>>)), Lit(<<"a","u","d","i","o","b","o","o","k">>), Wb>>), c4, <<>>, FALSE)
      c6 == RegexSubI(Cat(<<Wb, Alt(<<Lit(<<"c","o","m","p","l","e","t","e">>), Lit(<<"u","n","a","b","r","i","d","g","e","d">>), Lit(<<"a","b","r","i","d","g","e","d">>)>>), Wb>>), c5, <<>>, FALSE)
      c7 == RegexSubI(Cat(<<Wb, Cat(<<Lit(<<"a","u","d","i","o">>), Alt(<<Cat(<<Star(Cls(SpaceChars)), Lit(<<"b","o","o","k">>)>>), Cat(<<>>)>>)>>), Wb>>), c6, <<>>, FALSE)
      c8 == RegexSubI(Cat(<<Wb, Alt(<<Lit(<<"f","r","e","e">>), Lit(<<"d","o","w","n","l","o","a","d">>), Lit(<<"h","d">>), Lit(<<"h","q">>)>>), Wb>>), c7, <<>>, FALSE)
      c9 == RegexSubS(Cat(<<Wb, Alt(<<Lit(<<"1","9">>), Lit(<<"2","0">>)>>), Rep(Cls(DigitChars), 2, 2), Wb, Star(Cls(SpaceChars)), Eol>>), c8, <<>>, FALSE)
      c10 == RegexSubS(Plus(Cls(SpaceChars)), c9, <<" ">>, FALSE)
  IN StripChars(c10, {" ", "-", "_", "."})

(***************************************************************************)
(* deep_scan_library                                                       *)
(***************************************************************************)
scan_author_system_folders ==
  {<<"m","e","t","a","d","a","t","a">>, <<"t","m","p">>, <<"t","e","m","p">>, <<"c","a","c","h","e">>, <<"c","o","n","f","i","g">>, <<"d","a","t","a">>, <<"l","o","g","s">>, <<"l","o","g">>,
   <<"b","a","c","k","u","p">>, <<"b","a","c","k","u","p","s">>, <<"o","l","d">>, <<"n","e","w">>, <<"t","e","s","t">>, <<"t","e","s","t","s">>, <<"s","a","m","p","l","e">>, <<"s","a","m","p","l","e","s">>,
   <<".","t","h","u","m","b","n","a","i","l","s">>, <<"t","h","u","m","b","n","a","i","l","s">>, <<"c","o","v","e","r","s">>, <<"i","m","a","g","e","s">>, <<"a","r","t","w","o","r","k">>, <<"a","r","t">>,
   <<"s","t","r","e","a","m","s">>, <<".","s","t","r","e","a","m","s">>, <<".","c","a","c","h","e">>, <<".","m","e","t","a","d","a","t","a">>, <<"@","e","a","D","i","r">>, <<"#","r","e","c","y","c","l","e">>}

scan_system_folders ==
  {<<"m","e","t","a","d","a","t","a">>, <<"t","m","p">>, <<"t","e","m","p">>, <<"c","a","c","h","e">>, <<"c","o","n","f","i","g">>, <<"d","a","t","a">>, <<"l","o","g","s">>, <<"l","o","g">>,
   <<"b","a","c","k","u","p">>, <<"b","a","c","k","u","p","s">>, <<"o","l","d">>, <<"n","e","w">>, <<"t","e","s","t">>, <<"t","e","s","t","s">>, <<"s","a","m","p","l","e">>, <<"s","a","m","p","l","e","s">>,
   <<".","t","h","u","m","b","n","a","i","l","s">>, <<"t","h","u","m","b","n","a","i","l","s">>, <<"c","o","v","e","r","s">>, <<"i","m","a","g","e","s">>, <<"a","r","t","w","o","r","k">>, <<"a","r","t">>,
   <<"e","x","t","r","a","s">>, <<"b","o","n","u","s">>, <<"m","i","s","c">>, <<"o","t","h","e","r">>, <<"v","a","r","i","o","u","s">>, <<"u","n","k","n","o","w","n">>, <<"u","n","s","o","r","t","e","d">>,
   <<"d","o","w","n","l","o","a","d","s">>, <<"i","n","c","o","m","i","n","g">>, <<"p","r","o","c","e","s","s","i","n","g">>, <<"c","o","m","p","l","e","t","e","d">>, <<"d","o","n","e">>, <<"f","a","i","l","e","d">>,
   <<"s","t","r","e","a","m","s">>, <<"c","h","a","p","t","e","r","s">>, <<"p","a","r","t","s">>, <<".","s","t","r","e","a","m","s">>, <<".","c","a","c","h","e">>, <<".","m","e","t","a","d","a","t","a">>}

\* where the run of digits that starts at b ends
DigitRunEnd(s, b) ==
  LET stops == {j \in b..Len(s) : s[j] \notin DigitChars}
  IN IF stops = {} THEN Len(s) + 1 ELSE MinOf(stops)

\* re.search(pre (\d+) post, s).group(1); the empty string when there is no match
DigitGroup(pre, post, s) ==
  LET hit(i) == {b \in Ends(pre, s, i) : b <= Len(s) /\ s[b] \in DigitChars
                                         /\ Ends(post, s, DigitRunEnd(s, b)) # {}}
  IN Let({i \in 1..Len(s) : hit(i) # {}}, LAMBDA starts :
       IF starts = {} THEN <<>>
       ELSE Let(MaxOf(hit(MinOf(starts))), LAMBDA b : SubSeq(s, b, DigitRunEnd(s, b) - 1)))

book_file_patterns ==
  << <<Cat(<<Lit(<<"b","o","o","k">>), Star(Cls(SpaceChars))>>), Cat(<<>>)>>,
     <<Lit(<<"#">>), Cat(<<>>)>>,
     <<Bol, Cat(<<Star(Cls(SpaceChars)), Cls({"-",":","."})>>)>>,
     <<Cls(SpaceChars \cup {"-","_"}), Cls(SpaceChars \cup {"-","_","."})>>,
     <<Cat(<<Lit(<<"v","o","l","u","m","e">>), Star(Cls(SpaceChars))>>), Cat(<<>>)>>,
     <<Cat(<<Lit(<<"v","o","l">>), Opt(Lit(<<".">>)), Star(Cls(SpaceChars))>>), Cat(<<>>)>> >>

\* the book number the first matching pattern finds in a file stem
RECURSIVE FirstNumber(_, _)
FirstNumber(k, low) ==
  IF k > Len(book_file_patterns) THEN <<>>
  ELSE Let(DigitGroup(book_file_patterns[k][1], book_file_patterns[k][2], low), LAMBDA n :
         IF n # <<>> THEN n ELSE FirstNumber(k + 1, low))

book_number(file_stem) == FirstNumber(1, Lower(file_stem))

\* a folder holding at least two sub-folders that look like numbered books
is_series_folder(f, p) ==
  Cardinality(subdirs(f, p)) >= 2
  /\ Cardinality({d \in subdirs(f, p) :
                    AnySearch(book_folder_patterns, Lower(Name(d.path)))}) >= 2

\* a folder holding audio files with at least two different book numbers
is_multi_book_files(f, p) ==
  Cardinality(audio_files(f, p)) >= 2
  /\ Cardinality({book_number(stem(Name(n.path))) : n \in audio_files(f, p)} \ {<<>>}) >= 2

\* the author folder reads like a title and the title folder like a person
looks_reversed(author_issues, title_issues, title) ==
  /\ \E i \in DOMAIN author_issues :
       author_issues[i] \in {"year_in_author", "title_words_in_author",
                             "author_contains_book_number", "not_a_name_pattern",
                             "author_starts_with_number"}
  /\ ("title_looks_like_author" \in SeqToSet(title_issues)
      \/ Match(RxTitleIsName, title))

\* len(all_issues) once the disc folders and the ebook files are appended
issue_count(f, path, all_issues) ==
  Len(all_issues)
  + (IF \E d \in subdirs(f, path) : is_disc_chapter_folder(Name(d.path)) THEN 1 ELSE 0)
  + (IF \E n \in Tree(f, path) :
          n.path # path /\ Lower(suffix(Name(n.path))) \in EBOOK_EXTENSIONS
     THEN 1 ELSE 0)

\* "Add to queue if has issues"
queue_issues(db, book_id, n_issues, collection) ==
  IF n_issues = 0 THEN db
  ELSE IF collection THEN [db EXCEPT !.books[book_id].status = "needs_split"]
  ELSE IF QueuedFor(db.queue, book_id) # {} THEN db
  ELSE InsertQueue(db, book_id, "issues", IF n_issues < 10 THEN n_issues ELSE 10, FALSE)

\* "Add to database", then the queue
record_issues(db, path, author, title, n_issues, collection) ==
  Let(BookAt(db.books, path), LAMBDA existing :
    IF existing = {}
    THEN Let(InsertBook(db, path, author, title, "pending"), LAMBDA db1 :
           queue_issues(db1, CHOOSE b \in BookAt(db1.books, path) : TRUE,
                        n_issues, collection))
    ELSE Let(CHOOSE b \in existing : TRUE, LAMBDA book_id :
           IF db.books[book_id].status \in {"verified", "fixed"} THEN db
           ELSE queue_issues(db, book_id, n_issues, collection)))

\* the folder part of deep_scan_library: one title folder below an author folder
scan_title(db, f, author, author_issues, path) ==
  Let(Name(path), LAMBDA title :
    IF is_disc_chapter_folder(title) THEN db
    ELSE IF Lower(title) \in scan_system_folders \/ StartsWith(title, <<".">>) THEN db
    ELSE IF is_series_folder(f, path) THEN MarkFolder(db, path, author, title, "series_folder")
    ELSE IF is_multi_book_files(f, path)
    THEN MarkFolder(db, path, author, title, "multi_book_files")
    ELSE Let(analyze_title(title, author), LAMBDA title_issues :
           IF looks_reversed(author_issues, title_issues, title)
           THEN MarkFolder(db, path, author, title, "structure_reversed")
           ELSE Let(author_issues \o title_issues \o clean_title_issues(title),
                    LAMBDA all_issues :
                      record_issues(db, path, author, title,
                                    issue_count(f, path, all_issues),
                                    "multi_book_collection" \in SeqToSet(all_issues)))))

\* for title_dir in author_dir.iterdir(), in the order the directory yields them
RECURSIVE scan_titles(_, _, _, _, _)
scan_titles(db, f, author, author_issues, dirs) ==
  IF dirs = {} THEN db
  ELSE Let(CHOOSE x \in dirs : TRUE, LAMBDA d :
         Let(scan_title(db, f, author, author_issues, d.path), LAMBDA db1 :
           scan_titles(db1, f, author, author_issues, dirs \ {d})))

\* one author folder of the library
scan_author(db, f, path) ==
  Let(Name(path), LAMBDA author :
    IF Lower(author) \in scan_author_system_folders
       \/ StartsWith(author, <<".">>) \/ StartsWith(author, <<"@">>)
    THEN db
    ELSE Let(analyze_author(author), LAMBDA author_issues :
           scan_titles(db, f, author, author_issues, subdirs(f, path))))

\* for author_dir in lib_path.iterdir()
RECURSIVE scan_authors(_, _, _)
scan_authors(db, f, dirs) ==
  IF dirs = {} THEN db
  ELSE Let(CHOOSE x \in dirs : TRUE, LAMBDA d :
         Let(scan_author(db, f, d.path), LAMBDA db1 :
           scan_authors(db1, f, dirs \ {d})))

\* one loose audio file of the library root: a books row when there is none,
\* and a queue row on every scan (INSERT OR REPLACE on a table whose only key
\* is the row id)
scan_loose_file(db, path) ==
  Let(IF BookAt(db.books, path) # {} THEN db
      ELSE InsertBook(db, path, <<"U","n","k","n","o","w","n">>,
                      clean_search_title(stem(Name(path))), "loose_file"),
      LAMBDA db1 :
        InsertQueue(db1, CHOOSE b \in BookAt(db1.books, path) : TRUE,
                    "loose_file_needs_folder", 1, TRUE))

\* for item in lib_path.iterdir(), the files
RECURSIVE scan_loose_files(_, _)
scan_loose_files(db, files) ==
  IF files = {} THEN db
  ELSE Let(CHOOSE x \in files : TRUE, LAMBDA n :
         Let(scan_loose_file(db, n.path), LAMBDA db1 :
           scan_loose_files(db1, files \ {n})))

\* one configured library path
scan_library_path(db, f, lib_path) ==
  IF ~exists(f, lib_path) THEN db
  ELSE Let(scan_loose_files(db, audio_files(f, lib_path)), LAMBDA db1 :
         scan_authors(db1, f, subdirs(f, lib_path)))

\* for lib_path_str in config.get('library_paths', [])
RECURSIVE deep_scan_library(_, _, _)
deep_scan_library(db, f, library_paths) ==
  IF library_paths = <<>> THEN db
  ELSE Let(scan_library_path(db, f, Head(library_paths)), LAMBDA db1 :
         deep_scan_library(db1, f, Tail(library_paths)))

(***************************************************************************)
(* process_queue.  One call works in one transaction: st.db is the         *)
(* transaction's view, st.committed what the last commit made durable,     *)
(* st.fs the tree, st.log one entry per item handled.  An exception that   *)
(* nothing catches ends the call and drops the uncommitted view; what was  *)
(* done to the tree stays done.  Each step yields the set of its outcomes. *)
(***************************************************************************)
SetStatus(db, book_id, status) ==
  IF book_id \in DOMAIN db.books THEN [db EXCEPT !.books[book_id].status = status] ELSE db

SetError(db, book_id, status, message) ==
  IF book_id \in DOMAIN db.books
  THEN [db EXCEPT !.books[book_id].status = status, !.books[book_id].error_message = message]
  ELSE db

InsertHistory(db, row, new_author, new_title, new_path, status, message) ==
  [db EXCEPT !.history = @ @@ (NextId(DOMAIN @) :>
     [book_id |-> row.book_id, old_author |-> row.current_author,
      old_title |-> row.current_title, new_author |-> new_author, new_title |-> new_title,
      old_path |-> row.path, new_path |-> new_path, status |-> status,
      error_message |-> message])]

\* UPDATE books SET path, current_author, current_title, status = 'fixed'; path is
\* UNIQUE, and on the IntegrityError the code deletes the row instead
UpdateOrMerge(db, book_id, new_path, new_author, new_title) ==
  IF book_id \notin DOMAIN db.books THEN db
  ELSE IF BookAt(db.books, new_path) \ {book_id} # {}
  THEN [db EXCEPT !.books = [b \in DOMAIN @ \ {book_id} |-> @[b]]]
  ELSE [db EXCEPT !.books[book_id] =
          [@ EXCEPT !.path = new_path, !.current_author = new_author,
                    !.current_title = new_title, !.status = "fixed"]]

\* verify_drastic_change trusting a CORRECT of any confidence
verify_any_confidence(response, original_author, original_title) ==
  [answered |-> response.answered,
   verified |-> response.decision = "CORRECT",
   decision |-> response.decision,
   author |-> IF response.recommends THEN response.recommended_author ELSE original_author,
   title |-> IF response.recommends THEN response.recommended_title ELSE original_title]

\* the answer of verify_drastic_change for a verifier response; answered = FALSE
\* is the None of a failed call
verify_drastic_change(response, original_author, original_title) ==
  [answered |-> response.answered,
   verified |-> response.decision = "CORRECT" /\ response.confidence \in {"HIGH", "MEDIUM"},
   decision |-> response.decision,
   author |-> IF response.recommends THEN response.recommended_author ELSE original_author,
   title |-> IF response.recommends THEN response.recommended_title ELSE original_title]

series_indicators ==
  {<<"s","e","r","i","e","s">>, <<"s","a","g","a">>, <<"c","y","c","l","e">>, <<"c","h","r","o","n","i","c","l","e","s">>, <<"t","r","i","l","o","g","y">>, <<"c","o","l","l","e","c","t","i","o","n">>,
   <<"e","d","i","t","i","o","n">>, <<"n","o","v","e","l","s">>, <<"b","o","o","k","s">>, <<"t","a","l","e","s">>, <<"a","d","v","e","n","t","u","r","e","s">>, <<"m","y","s","t","e","r","i","e","s">>}

\* the fields read from one result of the model, and the series taken from the
\* titles when the result names none
first_series(row, result, series0, ex1) ==
  IF series0 # <<>> THEN [series |-> series0, num |-> result.series_num]
  ELSE IF ex1.series # <<>> THEN [series |-> ex1.series, num |-> ex1.num]
  ELSE IF ex1.num # <<>>
          /\ \E ind \in series_indicators : HasSub(Lower(row.current_author), ind)
  THEN [series |-> row.current_author, num |-> ex1.num]
  ELSE [series |-> <<>>, num |-> result.series_num]

\* the proposal; the series comes from the result's own title (ex2) when
\* nothing else named one
proposal(result, title0, s1, ex2, fallback) ==
  [author |-> Strip(result.author),
   title |-> IF fallback THEN ex2.title ELSE title0,
   narrator |-> Strip(result.narrator),
   series |-> IF fallback THEN ex2.series ELSE s1.series,
   series_num |-> IF fallback THEN ex2.num ELSE s1.num,
   year |-> result.year,
   edition |-> Strip(result.edition),
   variant |-> Strip(result.variant)]

\* the fields read from one result of the model, and the series taken from the
\* titles when the result names none
proposal_of(row, result) ==
  Let(Strip(result.title), LAMBDA title0 :
  Let(Strip(result.series), LAMBDA series0 :
  Let(extract_series_from_title(row.current_title), LAMBDA ex1 :
  Let(first_series(row, result, series0, ex1), LAMBDA s1 :
  Let(extract_series_from_title(title0), LAMBDA ex2 :
    proposal(result, title0, s1, ex2,
             s1.series = <<>> /\ title0 # <<>> /\ ex2.series # <<>>))))))

path_for(lib_path, p, narrator, year, edition, variant, config) ==
  build_new_path(lib_path, p.author, p.title, p.series, p.series_num, narrator, year,
                 edition, variant, config)

\* the configured library the path lies in, else two levels up
library_of(old_path, config) ==
  Let({k \in DOMAIN config.library_paths : IsRelativeTo(old_path, config.library_paths[k])},
      LAMBDA found :
        IF found # {} THEN config.library_paths[MinOf(found)] ELSE Parent(Parent(old_path)))

\* the move into an existing empty destination: to <name>_temp, rmdir, rename
three_step_move(f, old_path, new_path, fault) ==
  Let(Append(Parent(new_path), Name(new_path) \o <<"_","t","e","m","p">>), LAMBDA temp :
  Let(IF fault = "move" THEN Raise(f) ELSE shutil_move(f, old_path, temp), LAMBDA m1 :
    IF ~m1.ok THEN m1
    ELSE Let(IF fault = "rmdir" THEN Raise(m1.fs) ELSE rmdir(m1.fs, new_path), LAMBDA m2 :
           IF ~m2.ok THEN m2
           ELSE IF fault = "rename" THEN Raise(m2.fs) ELSE rename(m2.fs, temp, new_path))))

\* the move to a destination that does not exist
simple_move(f, old_path, new_path, fault) ==
  Let(IF fault = "mkdir" THEN Raise(f) ELSE mkdir(f, Parent(new_path)), LAMBDA m1 :
    IF ~m1.ok THEN m1
    ELSE Let(IF fault = "move" THEN Raise(m1.fs) ELSE shutil_move(m1.fs, old_path, new_path),
             LAMBDA m2 : IF ~m2.ok THEN m2 ELSE Ok(cleanup_parent(m2.fs, old_path))))

\* the version distinguishers tried on a conflict, in the code's order; each
\* names the year, edition and variant handed to build_new_path
distinguishers(p, new_path) ==
  LET s == PathStr(new_path)
      try(value, year, edition, variant) ==
        IF value # <<>> /\ ~HasSub(s, value)
        THEN << [year |-> year, edition |-> edition, variant |-> variant] >> ELSE <<>>
  IN try(p.narrator, <<>>, <<>>, <<>>) \o try(p.variant, <<>>, <<>>, p.variant)
     \o try(p.edition, <<>>, p.edition, <<>>) \o try(p.year, p.year, <<>>, <<>>)

\* the first distinguisher whose path is valid and free: [raised, path], the
\* empty path when there is none
RECURSIVE resolve_conflict(_, _, _, _, _)
resolve_conflict(f, lib_path, p, todo, config) ==
  IF todo = <<>> THEN [raised |-> FALSE, path |-> <<>>]
  ELSE Let(path_for(lib_path, p, p.narrator, Head(todo).year, Head(todo).edition,
                    Head(todo).variant, config),
           LAMBDA test_path :
             IF test_path.raised THEN [raised |-> TRUE, path |-> <<>>]
             ELSE IF test_path.ok /\ ~exists(f, test_path.path)
             THEN [raised |-> FALSE, path |-> test_path.path]
             ELSE resolve_conflict(f, lib_path, p, Tail(todo), config))

\* what the log keeps of one item: the row, the proposal p with the author
\* finally proposed (new_author), the path first built for it (new_path) and
\* the path the rename aimed at (target); whether the drastic-change check was
\* reached and its verdict; whether the verifier was asked and its response;
\* the branch taken and the step that raised; the entry's status and path and
\* whether its queue row is still there in the transaction afterwards; the
\* tree before (fs0) and after (fs1) the item; what build_new_path last gave
\* (built: a path, none or raised); for a call on a history row, the row's
\* status before the call (record_status)
NoProposal ==
  [author |-> <<>>, title |-> <<>>, narrator |-> <<>>, series |-> <<>>, series_num |-> <<>>,
   year |-> <<>>, edition |-> <<>>, variant |-> <<>>]

NoResponse ==
  [answered |-> FALSE, decision |-> "", confidence |-> "", recommends |-> FALSE,
   recommended_author |-> <<>>, recommended_title |-> <<>>]

LogEntry(book_id, queue_id, old_path, old_author, f) ==
  [book_id |-> book_id, queue_id |-> queue_id, history_id |-> 0, old_path |-> old_path,
   old_author |-> old_author, new_author |-> <<>>, new_path |-> <<>>, target |-> <<>>,
   p |-> NoProposal, checked |-> FALSE, drastic |-> FALSE, asked |-> FALSE,
   response |-> NoResponse, verification |-> "", outcome |-> "", fault |-> "none",
   built |-> "", record_status |-> "", others |-> {},
   status |-> "", path |-> <<>>, queued |-> TRUE, fs0 |-> f, fs1 |-> f]

\* the item is done: its queue row goes, the log gets its entry
Finish(st, db2, f2, e, commit) ==
  Let(DeleteQueue(db2, e.queue_id), LAMBDA db3 :
    [st EXCEPT !.db = db3, !.committed = IF commit THEN db3 ELSE @, !.fs = f2,
               !.processed = @ + 1,
               !.log = Append(@, [e EXCEPT
                  !.fs1 = f2,
                  !.queued = e.queue_id \in QueueIds(db3.queue),
                  !.status = IF e.book_id \in DOMAIN db3.books
                             THEN db3.books[e.book_id].status ELSE "deleted",
                  !.path = IF e.book_id \in DOMAIN db3.books
                           THEN db3.books[e.book_id].path ELSE <<>>])])

\* an exception leaves the loop and the function
Abort(st, e) ==
  [st EXCEPT !.aborted = TRUE, !.log = Append(@, [e EXCEPT !.outcome = "raised"])]

\* the history rows of the entry that still wait for approval are replaced
drop_pending(db, book_id) ==
  [db EXCEPT !.history =
     [h \in {k \in DOMAIN @ : ~(@[k].book_id = book_id /\ @[k].status = "pending_fix")}
        |-> @[h]]]

\* what follows the move, without the INSERT INTO history of lines 3073-3076
record_move_unrecorded(st, row, p, target, e, moved, fault) ==
  Let(moved, LAMBDA m :
    IF ~m.ok
    THEN Finish(st, SetError(st.db, row.book_id, "error", "rename failed"), m.fs,
                [e EXCEPT !.target = target, !.fault = fault, !.outcome = "error"], FALSE)
    ELSE Finish(st,
                UpdateOrMerge(drop_pending(st.db, row.book_id), row.book_id, target,
                              p.author, p.title),
                m.fs, [e EXCEPT !.target = target, !.outcome = "fixed",
                                !.others = BookAt(st.db.books, target) \ {row.book_id}],
                FALSE))

\* what follows the move: the 'fixed' history row and the entry's new path,
\* or the except branch; others are the entries that had the new path before
record_move(st, row, p, target, e, moved, fault) ==
  Let(moved, LAMBDA m :
    IF ~m.ok
    THEN Finish(st, SetError(st.db, row.book_id, "error", "rename failed"), m.fs,
                [e EXCEPT !.target = target, !.fault = fault, !.outcome = "error"], FALSE)
    ELSE Finish(st,
                UpdateOrMerge(InsertHistory(drop_pending(st.db, row.book_id), row, p.author,
                                            p.title, target, "fixed", ""),
                              row.book_id, target, p.author, p.title),
                m.fs, [e EXCEPT !.target = target, !.outcome = "fixed",
                                !.others = BookAt(st.db.books, target) \ {row.book_id}],
                FALSE))

\* no distinguisher gave a free path
record_conflict(st, row, p, new_path, e) ==
  Finish(st,
         SetError(InsertHistory(st.db, row, p.author, p.title, new_path, "error",
                    "Destination exists - could not resolve version conflict"),
                  row.book_id, "conflict",
                  "Destination folder exists - multiple versions detected"),
         st.fs, [e EXCEPT !.outcome = "conflict"], FALSE)

\* the move when the destination is not a folder with content
move_to(f, old_path, new_path, fault) ==
  IF ~exists(f, new_path) THEN simple_move(f, old_path, new_path, fault)
  ELSE IF ~is_dir(f, new_path) THEN Raise(f)
  ELSE Let(three_step_move(f, old_path, new_path, fault), LAMBDA m3 :
         IF m3.ok THEN Ok(cleanup_parent(m3.fs, old_path)) ELSE m3)

\* the auto-fix moving into whatever is at the destination
auto_fix_merging(st, row, p, lib_path, new_path, e, config, fault) ==
  record_move(st, row, p, new_path, e, move_to(st.fs, row.path, new_path, fault), fault)

\* the try block of the auto-fix
auto_fix(st, row, p, lib_path, new_path, e, config, fault) ==
  IF is_dir(st.fs, new_path) /\ iterdir(st.fs, new_path) # {}
  THEN Let(resolve_conflict(st.fs, lib_path, p, distinguishers(p, new_path), config),
           LAMBDA res :
             IF res.raised THEN record_move(st, row, p, <<>>, e, Raise(st.fs), fault)
             ELSE IF res.path = <<>> THEN record_conflict(st, row, p, new_path, e)
             ELSE record_move(st, row, p, res.path, e,
                              simple_move(cleanup_parent(st.fs, row.path), row.path,
                                          res.path, fault),
                              fault))
  ELSE record_move(st, row, p, new_path, e, move_to(st.fs, row.path, new_path, fault), fault)

\* line 2987 without "and not drastic_change"
decide_unprotected(st, row, p, lib_path, new_path, e, config, drastic, inputs) ==
  Let([e EXCEPT !.checked = TRUE, !.drastic = drastic, !.new_author = p.author,
                !.new_path = new_path],
      LAMBDA e1 :
        IF config.auto_fix
        THEN {auto_fix(st, row, p, lib_path, new_path, e1, config, fault) :
                fault \in inputs.faults}
        ELSE {Finish(st, SetStatus(InsertHistory(st.db, row, p.author, p.title, new_path,
                                                 "pending_fix", ""),
                                   row.book_id, "pending_fix"),
                     st.fs, [e1 EXCEPT !.outcome = "pending_fix"], FALSE)})

\* line 2987: rename now, or record the proposal for manual approval
decide(st, row, p, lib_path, new_path, e, config, drastic, inputs) ==
  Let([e EXCEPT !.checked = TRUE, !.drastic = drastic, !.new_author = p.author,
                !.new_path = new_path],
      LAMBDA e1 :
        IF config.auto_fix /\ ~drastic
        THEN {auto_fix(st, row, p, lib_path, new_path, e1, config, fault) :
                fault \in inputs.faults}
        ELSE {Finish(st, SetStatus(InsertHistory(st.db, row, p.author, p.title, new_path,
                                                 "pending_fix", ""),
                                   row.book_id, "pending_fix"),
                     st.fs, [e1 EXCEPT !.outcome = "pending_fix"], FALSE)})

\* lines 2934-2983: what the verifier's answer does to a drastic proposal
\* the verifier answered CORRECT or WRONG: its author and title replace the
\* proposal's, and the path is built again
reverified(st, row, p2, lib_path, e2, config, rebuilt, drastic, inputs) ==
  IF rebuilt.raised THEN {Abort(st, [e2 EXCEPT !.built = "raised"])}
  ELSE IF ~rebuilt.ok
  THEN {Finish(st, SetError(st.db, row.book_id, "error",
                            "Path validation failed after verification"),
               st.fs, [e2 EXCEPT !.built = "none", !.outcome = "error_path"], TRUE)}
  ELSE decide(st, row, p2, lib_path, rebuilt.path, [e2 EXCEPT !.built = "path"], config,
              drastic, inputs)

after_verification(st, row, p, lib_path, new_path, e, config, v, inputs) ==
  Let([e EXCEPT !.checked = TRUE, !.drastic = TRUE, !.new_author = p.author,
                !.new_path = new_path],
      LAMBDA e1 :
        IF ~v.answered
        THEN {Finish(st, SetStatus(st.db, row.book_id, "pending_fix"), st.fs,
                     [e1 EXCEPT !.verification = "failed", !.outcome = "blocked"], FALSE)}
        ELSE IF ~v.verified /\ v.decision # "WRONG"
        THEN {Finish(st, SetStatus(InsertHistory(st.db, row, p.author, p.title, new_path,
                                                 "pending_fix", "Uncertain"),
                                   row.book_id, "pending_fix"),
                     st.fs, [e1 EXCEPT !.verification = "uncertain", !.outcome = "blocked"],
                     FALSE)}
        ELSE Let([p EXCEPT !.author = v.author, !.title = v.title], LAMBDA p2 :
             Let(path_for(lib_path, p2, p.narrator, p.year, p.edition, p.variant, config),
                 LAMBDA rebuilt :
                   UNION {reverified(st, row, p2, lib_path,
                                     [e1 EXCEPT !.verification =
                                                  IF v.verified THEN "verified" ELSE "wrong",
                                                !.drastic = d, !.new_author = v.author,
                                                !.p = p2],
                                     config, rebuilt, d, inputs) :
                          d \in is_drastic_author_change(row.current_author, v.author)})))

\* one (row, result) pair of the loop: the set of outcomes
\* from the drastic-change check on
checked_item(st, row, p, lib_path, new_path, e, config, inputs) ==
  UNION {
    IF d /\ config.protect_author_changes
    THEN UNION {after_verification(st, row, p, lib_path, new_path,
                  [e EXCEPT !.asked = TRUE, !.response = r], config,
                  verify_drastic_change(r, row.current_author, row.current_title),
                  inputs) :
                r \in inputs.responses}
    ELSE decide(st, row, p, lib_path, new_path, e, config, d, inputs) :
    d \in is_drastic_author_change(row.current_author, p.author)}

\* from build_new_path on
built_item(st, row, p, lib_path, e, config, built, loose, inputs) ==
  IF built.raised THEN {Abort(st, [e EXCEPT !.built = "raised"])}
  ELSE IF loose /\ ~built.ok THEN {Abort(st, [e EXCEPT !.built = "none"])}
  ELSE IF ~built.ok
  THEN {Finish(st, SetError(st.db, row.book_id, "error",
                            "Path validation failed - unsafe author/title"),
               st.fs, [e EXCEPT !.built = "none", !.outcome = "error_path"], TRUE)}
  ELSE checked_item(st, row, p, lib_path,
                    IF loose THEN Append(built.path, Name(row.path)) ELSE built.path,
                    [e EXCEPT !.built = "path"], config, inputs)

\* a result that is a dict
proposed_item(st, row, p, e, config, inputs) ==
  IF (p.author = <<>> \/ p.title = <<>>)
     \/ (p.author = row.current_author /\ p.title = row.current_title /\ p.narrator = <<>>)
  THEN {Finish(st, SetStatus(st.db, row.book_id, "verified"), st.fs,
               [e EXCEPT !.outcome = "verified"], FALSE)}
  ELSE Let(library_of(row.path, config), LAMBDA lib_path :
       Let(path_for(lib_path, p, p.narrator, p.year, p.edition, p.variant, config),
           LAMBDA built :
             built_item(st, row, p, lib_path, e, config, built,
                        row.reason = "loose_file_needs_folder" /\ is_file(st.fs, row.path),
                        inputs)))

\* the loop body without the safety check of lines 2785-2822
process_item_unchecked(st, row, result, config, inputs) ==
  Let(LogEntry(row.book_id, row.queue_id, row.path, row.current_author, st.fs), LAMBDA e :
    IF ~result.dict THEN {Abort(st, e)}
    ELSE Let(proposal_of(row, result), LAMBDA p :
           proposed_item(st, row, p, [e EXCEPT !.p = p, !.new_author = p.author], config,
                         inputs)))

\* one (row, result) pair of the loop: the set of outcomes
process_item(st, row, result, config, inputs) ==
  Let(LogEntry(row.book_id, row.queue_id, row.path, row.current_author, st.fs), LAMBDA e :
    IF is_dir(st.fs, row.path) /\ is_series_folder(st.fs, row.path)
    THEN {Finish(st, SetStatus(st.db, row.book_id, "series_folder"), st.fs,
                 [e EXCEPT !.outcome = "series_folder"], FALSE)}
    ELSE IF is_dir(st.fs, row.path) /\ is_multi_book_files(st.fs, row.path)
    THEN {Finish(st, SetStatus(st.db, row.book_id, "multi_book_files"), st.fs,
                 [e EXCEPT !.outcome = "multi_book_files"], FALSE)}
    ELSE IF ~result.dict THEN {Abort(st, e)}
    ELSE Let(proposal_of(row, result), LAMBDA p :
           proposed_item(st, row, p, [e EXCEPT !.p = p, !.new_author = p.author], config,
                         inputs)))

\* ORDER BY q.priority, q.added_at: row i of the queue comes before row j
sorts_before(queue, i, j) ==
  \/ queue[i].priority < queue[j].priority
  \/ queue[i].priority = queue[j].priority /\ ~queue[i].iso /\ queue[j].iso
  \/ queue[i].priority = queue[j].priority /\ queue[i].iso = queue[j].iso /\ i < j

\* SELECT ... FROM queue q JOIN books b ... ORDER BY ... LIMIT batch_size
\* the position of row i in the ordered result
rank(joined, i) == Cardinality({j \in DOMAIN joined : sorts_before(joined, j, i)})

\* the columns of one joined row
batch_row(db, q) ==
  [queue_id |-> q.id, book_id |-> q.book_id, reason |-> q.reason,
   path |-> db.books[q.book_id].path,
   current_author |-> db.books[q.book_id].current_author,
   current_title |-> db.books[q.book_id].current_title]

\* SELECT ... FROM queue q JOIN books b ... ORDER BY ... LIMIT batch_size
fetch_batch(db, batch_size) ==
  Let(SelectSeq(db.queue, LAMBDA q : q.book_id \in DOMAIN db.books), LAMBDA joined :
    [k \in 1..MinOf({batch_size, Len(joined)}) |->
       batch_row(db, joined[CHOOSE i \in DOMAIN joined : rank(joined, i) = k - 1])])

\* the return on no results taking the batch off the queue
no_results_dropping(st, rows) ==
  Let([st.db EXCEPT !.queue =
         SelectSeq(@, LAMBDA q : \A k \in DOMAIN rows : rows[k].queue_id # q.id)],
      LAMBDA db : [st EXCEPT !.db = db, !.committed = db])

\* lines 2773-2777: the call gave nothing; the counter is committed, the batch
\* stays queued
no_results(st, rows) == [st EXCEPT !.committed = st.db]

\* for row, result in zip(batch, results): the loop ends with the shorter list
RECURSIVE process_batch(_, _, _, _)
process_batch(st, rows, config, inputs) ==
  IF rows = <<>> \/ st.aborted THEN {st}
  ELSE {st} \cup UNION {process_batch(s2, Tail(rows), config, inputs) :
                         s2 \in UNION {process_item(st, Head(rows), r, config, inputs) :
                                         r \in inputs.results}}

(***************************************************************************)
(* apply_fix                                                               *)
(***************************************************************************)
\* [ok, db, fs, outcome]: the return value, the database and the tree afterwards
in_library(path, config) ==
  \E k \in DOMAIN config.library_paths :
    IsRelativeTo(Resolve(path), Resolve(config.library_paths[k]))

\* the first library new_path lies in is the one its depth is measured in
too_shallow(new_path, config) ==
  Let(config.library_paths[
        MinOf({k \in DOMAIN config.library_paths :
                 IsRelativeTo(Resolve(new_path), Resolve(config.library_paths[k]))})],
      LAMBDA lib : Len(RelativeParts(Resolve(new_path), Resolve(lib))) < 2)

\* UPDATE history SET status = 'error', error_message; commit; return False
fix_failed(db, f, history_id, message, outcome) ==
  [ok |-> FALSE, fs |-> f, outcome |-> outcome,
   db |-> [db EXCEPT !.history[history_id].status = "error",
                     !.history[history_id].error_message = message]]

\* the try block once the folder is moved
fix_moved(db, f, history_id, fix) ==
  IF fix.book_id \in DOMAIN db.books /\ BookAt(db.books, fix.new_path) \ {fix.book_id} # {}
  THEN fix_failed(db, f, history_id, "UNIQUE constraint failed: books.path", "error")
  ELSE [ok |-> TRUE, fs |-> f, outcome |-> "fixed",
        db |-> [db EXCEPT
                  !.books = IF fix.book_id \in DOMAIN @
                            THEN [@ EXCEPT ![fix.book_id] =
                                    [@ EXCEPT !.path = fix.new_path,
                                              !.current_author = fix.new_author,
                                              !.current_title = fix.new_title,
                                              !.status = "fixed"]]
                            ELSE @,
                  !.history[history_id].status = "fixed"]]

\* the move of apply_fix: into an empty destination, or to a new one
fix_move(f, old_path, new_path, fault) ==
  IF exists(f, new_path)
  THEN IF ~is_dir(f, new_path) THEN Raise(f)
       ELSE three_step_move(f, old_path, new_path, fault)
  ELSE Let(IF fault = "mkdir" THEN Raise(f) ELSE mkdir(f, Parent(new_path)), LAMBDA m1 :
         IF ~m1.ok THEN m1
         ELSE IF fault = "move" THEN Raise(m1.fs)
         ELSE shutil_move(m1.fs, old_path, new_path))

\* apply_fix without the test for files at the destination
apply_fix_merging(db, f, history_id, fix, config, fault) ==
  IF ~in_library(fix.old_path, config) \/ ~in_library(fix.new_path, config)
  THEN fix_failed(db, f, history_id, "SAFETY BLOCK: Path outside library", "outside_library")
  ELSE IF too_shallow(fix.new_path, config)
  THEN fix_failed(db, f, history_id, "SAFETY BLOCK: Path too shallow", "too_shallow")
  ELSE IF ~exists(f, fix.old_path)
  THEN fix_failed(db, f, history_id, "Source folder no longer exists", "source_missing")
  ELSE Let(fix_move(f, fix.old_path, fix.new_path, fault), LAMBDA m :
         IF ~m.ok THEN fix_failed(db, m.fs, history_id, "rename failed", "error")
         ELSE Let(cleanup_parent(m.fs, fix.old_path), LAMBDA moved :
                fix_moved(db, moved, history_id, fix)))

\* the checks of apply_fix in their order, then the move
apply_fix_checked(db, f, history_id, fix, config, fault) ==
  IF ~in_library(fix.old_path, config) \/ ~in_library(fix.new_path, config)
  THEN fix_failed(db, f, history_id, "SAFETY BLOCK: Path outside library", "outside_library")
  ELSE IF too_shallow(fix.new_path, config)
  THEN fix_failed(db, f, history_id, "SAFETY BLOCK: Path too shallow", "too_shallow")
  ELSE IF ~exists(f, fix.old_path)
  THEN fix_failed(db, f, history_id, "Source folder no longer exists", "source_missing")
  ELSE IF is_dir(f, fix.new_path) /\ iterdir(f, fix.new_path) # {}
  THEN fix_failed(db, f, history_id, "Destination folder already exists with files",
                  "destination_exists")
  ELSE Let(fix_move(f, fix.old_path, fix.new_path, fault), LAMBDA m :
         IF ~m.ok THEN fix_failed(db, m.fs, history_id, "rename failed", "error")
         ELSE Let(cleanup_parent(m.fs, fix.old_path), LAMBDA moved :
                fix_moved(db, moved, history_id, fix)))

apply_fix_result(db, f, history_id, config, fault) ==
  Let(db.history[history_id], LAMBDA fix :
    apply_fix_checked(db, f, history_id, fix, config, fault))

(***************************************************************************)
(* The state                                                               *)
(***************************************************************************)
VARIABLES
  fs,         \* the library tree on disk
  books,      \* books table (committed): id -> row
  queue,      \* queue table (committed): rows in insertion order
  history,    \* history table (committed): id -> row
  api_calls,  \* stats.api_calls of the day
  config,     \* the configuration in force
  inputs,     \* what the language-model calls and the filesystem can answer
  last,       \* the last call: which, its return, and its log
  reviews,    \* calls to reject, dismiss and undo so far
  threads,    \* the threads running beside each other: position and locals
  globals     \* the module's globals the threads share, and the clock

vars == <<fs, books, queue, history, api_calls, config, inputs, last, reviews, threads,
          globals>>

\* one request at a time: no thread beside it, no global in use
NoThreads == <<>>
NoGlobals == [clock |-> 0]

Db == [books |-> books, queue |-> queue, history |-> history, api_calls |-> api_calls]

\* processed is the first element of what process_queue returns
Call(op, ok, aborted, log) ==
  [op |-> op, ok |-> ok, aborted |-> aborted, log |-> log, processed |-> 0]

Store(db) ==
  /\ books' = db.books
  /\ queue' = db.queue
  /\ history' = db.history
  /\ api_calls' = db.api_calls

(***************************************************************************)
(* Bounds, and the inputs the environment supplies                         *)
(***************************************************************************)
\* config batch_size
BatchSize == 2
\* config max_requests_per_hour
MaxCalls == 1
\* a scan is not started once the queue has handed out this row id
MaxQueue == 3
\* calls to reject, dismiss and undo a user makes in one behaviour
MaxReviews == 1

LibRoot == << <<"l","i","b">> >>

BookTree(author, title, files) ==
  {Dir(LibRoot), Dir(LibRoot \o <<author>>), Dir(LibRoot \o <<author, title>>)}
    \cup {File(LibRoot \o <<author, title, n>>) : n \in files}

Messy == BookTree(<<"B","o","y","e","t","t">>, <<"A","r","i","e","l"," ","6","4","k">>, {<<"a","r",".","m","4","b">>})

\* a messy folder whose clean destination holds another book
TreeOccupied == Messy \cup BookTree(<<"S","t","e","v","e","n"," ","B","o","y","e","t","t">>, <<"A","r","i","e","l">>, {<<"o","t","h","e","r",".","m","4","b">>})

\* a messy folder whose clean destination is an empty folder
TreeEmptyDest == Messy \cup BookTree(<<"S","t","e","v","e","n"," ","B","o","y","e","t","t">>, <<"A","r","i","e","l">>, {})

\* a messy folder whose destination holds two other versions of the book
TreeVersions ==
  Messy \cup BookTree(<<"S","t","e","v","e","n"," ","B","o","y","e","t","t">>, <<"A","r","i","e","l"," ","[","2","n","d","]">>, {<<"s","e","c","o","n","d",".","m","4","b">>})
        \cup BookTree(<<"S","t","e","v","e","n"," ","B","o","y","e","t","t">>, <<"A","r","i","e","l"," ","(","1","9","9","9",")">>, {<<"f","i","r","s","t",".","m","4","b">>})

\* a boxed set by name next to a messy folder
TreeCollection == Messy \cup BookTree(<<"B","o","y","e","t","t">>, <<"C","o","m","p","l","e","t","e"," ","S","e","r","i","e","s">>, {<<"a","l","l",".","m","4","b">>})

\* a loose audio file in the library root
TreeLoose == {Dir(LibRoot), File(LibRoot \o << <<"l","o","o","s","e",".","m","4","b">> >>)}

\* a folder of numbered book folders and a folder of numbered book files next
\* to a messy folder
TreeSeries ==
  Messy \cup BookTree(<<"B","o","y","e","t","t">>, <<"S","a","g","a">>, {})
    \cup {Dir(LibRoot \o << <<"B","o","y","e","t","t">>, <<"S","a","g","a">>, n >>) : n \in {<<"1"," ","-"," ","A">>, <<"2"," ","-"," ","B">>}}
    \cup BookTree(<<"B","o","y","e","t","t">>, <<"O","m","n","i">>, {<<"b","o","o","k","1",".","m","4","b">>, <<"b","o","o","k","2",".","m","4","b">>})

\* a folder with author and title swapped
TreeReversed == BookTree(<<"H","o","l","l","o","w"," ","M","a","n"," ","1","9","9","9">>, <<"S","t","e","v","e","n"," ","B","o","y","e","t","t">>, {<<"h","m",".","m","4","b">>})

Config(auto, protect) ==
  [auto_fix |-> auto, protect_author_changes |-> protect,
   naming_format |-> "author/title", series_grouping |-> FALSE,
   custom_naming_template |-> DefaultTemplate, batch_size |-> BatchSize,
   max_requests_per_hour |-> MaxCalls, library_paths |-> <<LibRoot>>]

\* one element of the list the model returns; dict = FALSE is an element that is
\* not an object (result.get raises AttributeError)
Result(author, title, narrator, year) ==
  [dict |-> TRUE, author |-> author, title |-> title, narrator |-> narrator,
   series |-> <<>>, series_num |-> <<>>, year |-> year, edition |-> <<>>, variant |-> <<>>]

NoResult == Result(<<>>, <<>>, <<>>, <<>>)
Malformed == [NoResult EXCEPT !.dict = FALSE]
Clean == Result(<<"S","t","e","v","e","n"," ","B","o","y","e","t","t">>, <<"A","r","i","e","l">>, <<>>, <<>>)
CleanYear == Result(<<"S","t","e","v","e","n"," ","B","o","y","e","t","t">>, <<"A","r","i","e","l">>, <<>>, <<"1","9","9","9">>)
CleanNarrator == Result(<<"S","t","e","v","e","n"," ","B","o","y","e","t","t">>, <<"A","r","i","e","l">>, <<"A","l">>, <<>>)
Edition1999 == [CleanYear EXCEPT !.edition = <<"2","n","d">>]
Edition2000 == [Edition1999 EXCEPT !.year = <<"2","0","0","0">>]
Other == Result(<<"J","o","h","n"," ","C","a","r","r">>, <<"A","r","i","e","l">>, <<>>, <<>>)
Unsafe == Result(<<".",".">>, <<"A","r","i","e","l">>, <<>>, <<>>)

Response(answered, decision, confidence, recommends, author) ==
  [answered |-> answered, decision |-> decision, confidence |-> confidence,
   recommends |-> recommends, recommended_author |-> author,
   recommended_title |-> IF recommends THEN <<"A","r","i","e","l">> ELSE <<>>]

\* what the verifier can answer
VerifierResponses ==
  {Response(FALSE, "UNCERTAIN", "LOW", FALSE, <<>>),
   Response(TRUE, "UNCERTAIN", "LOW", FALSE, <<>>),
   Response(TRUE, "CORRECT", "LOW", TRUE, <<"S","t","e","v","e","n"," ","B","o","y","e","t","t">>),
   Response(TRUE, "CORRECT", "HIGH", TRUE, <<"J","o","h","n"," ","C","a","r","r">>),
   Response(TRUE, "CORRECT", "MEDIUM", FALSE, <<>>),
   Response(TRUE, "WRONG", "HIGH", TRUE, <<"S","t","e","v","e","n"," ","B","o","y","e","t","t">>),
   Response(TRUE, "WRONG", "HIGH", TRUE, <<"Q">>)}

FsFaults == {"none", "mkdir", "move", "rmdir", "rename"}

\* a world: the library on disk, the settings, what the two language-model
\* calls and the filesystem can answer in it, and how many times the user
\* rejects, dismisses or undoes
World(tree, cfg, results, responses, faults, allowed) ==
  [fs |-> tree, config |-> cfg,
   inputs |-> [results |-> results, responses |-> responses, faults |-> faults,
               reviews |-> allowed, library_paths |-> {}]]

\* a configuration naming every book folder 'Author - Title' in the library root
Flat(cfg) == [cfg EXCEPT !.naming_format = "author - title"]

\* a configuration that lets process_queue be called once more
Again(cfg) == [cfg EXCEPT !.max_requests_per_hour = @ + 1]

\* the world in which the user may submit other library paths in the settings
Resettled(w, paths) == [w EXCEPT !.inputs.library_paths = paths]

\* a library root the settings may name instead of the one scanned
OtherRoot == << <<"m","e","d","i","a">> >>

Worlds ==
  {World(TreeOccupied, Config(a, FALSE), {Clean, CleanYear, CleanNarrator}, {}, {"none"}, 0) :
     a \in BOOLEAN}
  \cup {World(TreeVersions, Config(TRUE, FALSE), {Edition1999, Edition2000}, {}, {"none"}, 0)}
  \cup {World(TreeEmptyDest, Config(TRUE, FALSE), {Clean}, {}, FsFaults, MaxReviews)}
  \cup {World(TreeEmptyDest, Again(Config(TRUE, FALSE)), {Clean}, {}, {"none"}, MaxReviews)}
  \cup {World(Messy, Flat(Config(FALSE, FALSE)), {Clean}, {}, {"none"}, 0)}
  \cup {World(Messy, Config(a, p), {Clean, Other, Unsafe}, VerifierResponses,
              {"none", "mkdir", "move"}, MaxReviews) : a \in BOOLEAN, p \in BOOLEAN}
  \cup {World(TreeCollection, Config(TRUE, TRUE), {Clean, NoResult, Malformed}, {},
              {"none"}, MaxReviews)}
  \cup {World(TreeLoose, Config(TRUE, FALSE), {Clean, NoResult, Unsafe}, {},
              {"none", "move"}, 0)}
  \cup {Resettled(World(Messy, Config(TRUE, FALSE), {Clean}, {}, {"none"}, 0),
                   {<<OtherRoot>>, <<LibRoot>>})}
  \cup {World(TreeSeries, Config(TRUE, FALSE), {Clean, Malformed}, {}, {"none"}, 0)}
  \cup {World(TreeReversed, Config(TRUE, FALSE), {NoResult}, {}, {"none", "mkdir", "move"},
              MaxReviews)}

Init ==
  /\ \E w \in Worlds : fs = w.fs /\ config = w.config /\ inputs = w.inputs
  /\ books = <<>>
  /\ queue = <<>>
  /\ history = <<>>
  /\ api_calls = 0
  /\ last = Call("init", TRUE, FALSE, <<>>)
  /\ reviews = 0
  /\ threads = NoThreads
  /\ globals = NoGlobals

(***************************************************************************)
(* The operations                                                          *)
(***************************************************************************)
scan_library ==
  /\ NextId(QueueIds(queue)) <= MaxQueue
  /\ Store(deep_scan_library(Db, fs, config.library_paths))
  /\ last' = Call("scan_library", TRUE, FALSE, <<>>)
  /\ UNCHANGED <<fs, config, inputs, reviews, threads, globals>>

\* the deep rescan resetting every entry, the protected ones too
api_deep_rescan_all ==
  LET ids == DOMAIN books
      nth(k) == CHOOSE b \in ids : Cardinality({c \in ids : c < b}) = k - 1
  IN /\ books' = [b \in DOMAIN books |-> [books[b] EXCEPT !.status = "pending"]]
     /\ queue' = [k \in 1..Cardinality(ids) |->
                    [id |-> k, book_id |-> nth(k), reason |-> "", priority |-> 5,
                     iso |-> TRUE]]
     /\ last' = Call("api_deep_rescan", TRUE, FALSE, <<>>)
     /\ UNCHANGED <<fs, history, api_calls, config, inputs, reviews, threads, globals>>

api_deep_rescan ==
  LET ids == {b \in DOMAIN books : books[b].status # "protected"}
      nth(k) == CHOOSE b \in ids : Cardinality({c \in ids : c < b}) = k - 1
  IN /\ books' = [b \in DOMAIN books |->
                    IF b \in ids THEN [books[b] EXCEPT !.status = "pending"] ELSE books[b]]
     /\ queue' = [k \in 1..Cardinality(ids) |->
                    [id |-> k, book_id |-> nth(k), reason |-> "", priority |-> 5,
                     iso |-> TRUE]]
     /\ last' = Call("api_deep_rescan", TRUE, FALSE, <<>>)
     /\ UNCHANGED <<fs, history, api_calls, config, inputs, reviews, threads, globals>>

process_queue ==
  /\ api_calls < config.max_requests_per_hour
  /\ \E batch \in {fetch_batch(Db, config.batch_size)} :
       /\ batch # <<>>
       /\ \E st \in {[db |-> [Db EXCEPT !.api_calls = @ + 1], committed |-> Db, fs |-> fs,
                       log |-> <<>>, aborted |-> FALSE, processed |-> 0]} :
          \E out \in {no_results(st, batch)} \cup process_batch(st, batch, config, inputs) :
            /\ Store(IF out.aborted THEN out.committed ELSE out.db)
            /\ fs' = out.fs
            /\ last' = [Call("process_queue", ~out.aborted, out.aborted, out.log)
                          EXCEPT !.processed = IF out.aborted THEN 0 ELSE out.processed]
  /\ UNCHANGED <<config, inputs, reviews, threads, globals>>

\* what the log keeps of one apply_fix
fix_entry(history_id, fix, f, r, fault) ==
  [LogEntry(fix.book_id, 0, fix.old_path, fix.old_author, f)
     EXCEPT !.history_id = history_id, !.record_status = fix.status,
            !.new_author = fix.new_author,
            !.new_path = fix.new_path, !.target = fix.new_path,
            !.outcome = r.outcome, !.fault = fault, !.fs1 = r.fs,
            !.status = IF fix.book_id \in DOMAIN r.db.books
                       THEN r.db.books[fix.book_id].status ELSE "deleted",
            !.path = IF fix.book_id \in DOMAIN r.db.books
                     THEN r.db.books[fix.book_id].path ELSE <<>>]

apply_fix(history_id) ==
  \E fault \in inputs.faults :
    \E r \in {apply_fix_result(Db, fs, history_id, config, fault)} :
      /\ Store(r.db)
      /\ fs' = r.fs
      /\ last' = Call("apply_fix", r.ok, FALSE, <<fix_entry(history_id, history[history_id], fs, r, fault)>>)
      /\ UNCHANGED <<config, inputs, reviews, threads, globals>>

api_remove_from_queue(queue_id) ==
  LET row == queue[CHOOSE i \in DOMAIN queue : queue[i].id = queue_id]
  IN /\ Store(SetStatus(DeleteQueue(Db, queue_id), row.book_id, "verified"))
     /\ last' = Call("api_remove_from_queue", TRUE, FALSE, <<>>)
     /\ UNCHANGED <<fs, config, inputs, reviews, threads, globals>>

\* [ok, books, fs, outcome] of the reversed-structure fix of one entry
fix_structure_reversed(bks, f, book_id, old_path, new_path, fault) ==
  IF ~exists(f, old_path)
  THEN [ok |-> FALSE, fs |-> f, outcome |-> "missing",
        books |-> [bks EXCEPT ![book_id].status = "missing"]]
  ELSE Let(IF fault = "mkdir" THEN Raise(f) ELSE mkdir(f, Parent(new_path)), LAMBDA m1 :
       Let(IF ~m1.ok THEN m1
           ELSE IF fault = "move" THEN Raise(m1.fs)
           ELSE shutil_move(m1.fs, old_path, new_path),
           LAMBDA m :
             IF ~m.ok \/ BookAt(bks, new_path) \ {book_id} # {}
             THEN [ok |-> FALSE, fs |-> m.fs, outcome |-> "error", books |-> bks]
             ELSE [ok |-> TRUE, fs |-> m.fs, outcome |-> "fixed",
                   books |-> [bks EXCEPT ![book_id] =
                                [@ EXCEPT !.path = new_path,
                                          !.current_author = bks[book_id].current_title,
                                          !.current_title = bks[book_id].current_author,
                                          !.status = "fixed"]]]))

\* lib_root / detected_author / detected_series
reversed_path(book) ==
  PathJoin(PathJoin(Parent(Parent(book.path)), book.current_title), book.current_author)

api_fix_structure_reversed(book_id) ==
  /\ books[book_id].status = "structure_reversed"
  /\ \E fault \in inputs.faults :
       \E r \in {fix_structure_reversed(books, fs, book_id, books[book_id].path,
                                        reversed_path(books[book_id]), fault)} :
         /\ books' = r.books
         /\ fs' = r.fs
         /\ last' = Call("api_fix_structure_reversed", r.ok, FALSE,
                         << [LogEntry(book_id, 0, books[book_id].path,
                                      books[book_id].current_author, fs)
                               EXCEPT !.new_author = books[book_id].current_title,
                                      !.new_path = reversed_path(books[book_id]),
                                      !.target = reversed_path(books[book_id]),
                                      !.fault = fault, !.outcome = r.outcome, !.fs1 = r.fs,
                                      !.status = r.books[book_id].status,
                                      !.path = r.books[book_id].path] >>)
  /\ UNCHANGED <<queue, history, api_calls, config, inputs, reviews, threads, globals>>

\* DELETE FROM history WHERE id = ?, then the entry is marked 'verified'
forget_history(db, history_id) ==
  SetStatus([db EXCEPT !.history = [h \in DOMAIN @ \ {history_id} |-> @[h]]],
            db.history[history_id].book_id, "verified")

\* what the log keeps of a call that names one history row
review_entry(history_id, record, f) ==
  [LogEntry(record.book_id, 0, record.old_path, record.old_author, f)
     EXCEPT !.history_id = history_id, !.record_status = record.status,
            !.new_author = record.new_author,
            !.new_path = record.new_path, !.target = record.new_path]

api_reject_fix(history_id) ==
  /\ reviews < inputs.reviews
  /\ reviews' = reviews + 1
  /\ Store(forget_history(Db, history_id))
  /\ last' = Call("api_reject_fix", TRUE, FALSE,
                  <<[review_entry(history_id, history[history_id], fs)
                       EXCEPT !.outcome = "rejected", !.status = "verified"]>>)
  /\ UNCHANGED <<fs, config, inputs, threads, globals>>

api_dismiss_error(history_id) ==
  /\ reviews < inputs.reviews
  /\ reviews' = reviews + 1
  /\ Store(forget_history(Db, history_id))
  /\ last' = Call("api_dismiss_error", TRUE, FALSE,
                  <<[review_entry(history_id, history[history_id], fs)
                       EXCEPT !.outcome = "dismissed", !.status = "verified"]>>)
  /\ UNCHANGED <<fs, config, inputs, threads, globals>>

\* [ok, db, fs, outcome] of api_undo for one history row
undo_result(db, f, history_id, record, fault) ==
  IF ~exists(f, record.new_path)
  THEN [ok |-> FALSE, db |-> db, fs |-> f, outcome |-> "current_missing"]
  ELSE IF exists(f, record.old_path)
  THEN [ok |-> FALSE, db |-> db, fs |-> f, outcome |-> "original_exists"]
  ELSE Let(IF fault = "move" THEN Raise(f)
           ELSE shutil_move(f, record.new_path, record.old_path), LAMBDA m :
         IF ~m.ok \/ BookAt(db.books, record.old_path) \ {record.book_id} # {}
         THEN [ok |-> FALSE, db |-> db, fs |-> m.fs, outcome |-> "error"]
         ELSE [ok |-> TRUE, fs |-> m.fs, outcome |-> "undone",
               db |-> [db EXCEPT
                         !.history[history_id].status = "undone",
                         !.history[history_id].error_message = "Manually undone by user",
                         !.books = IF record.book_id \in DOMAIN @
                                   THEN [@ EXCEPT ![record.book_id] =
                                           [@ EXCEPT !.current_author = record.old_author,
                                                     !.current_title = record.old_title,
                                                     !.path = record.old_path,
                                                     !.status = "protected"]]
                                   ELSE @]])

api_undo(history_id) ==
  /\ reviews < inputs.reviews
  /\ reviews' = reviews + 1
  /\ \E fault \in inputs.faults \cap {"none", "move"} :
    \E r \in {undo_result(Db, fs, history_id, history[history_id], fault)} :
      /\ Store(r.db)
      /\ fs' = r.fs
      /\ last' = Call("api_undo", r.ok, FALSE,
                      <<[review_entry(history_id, history[history_id], fs)
                           EXCEPT !.outcome = r.outcome, !.fault = fault, !.fs1 = r.fs,
                                  !.status = IF history[history_id].book_id \in DOMAIN r.db.books
                                             THEN r.db.books[history[history_id].book_id].status
                                             ELSE "deleted",
                                  !.path = IF history[history_id].book_id \in DOMAIN r.db.books
                                           THEN r.db.books[history[history_id].book_id].path
                                           ELSE <<>>]>>)
      /\ UNCHANGED <<config, inputs, threads, globals>>

\* POST /settings: the form's library paths replace the configured ones
settings_page(library_paths) ==
  /\ library_paths # config.library_paths
  /\ config' = [config EXCEPT !.library_paths = library_paths]
  /\ last' = Call("settings_page", TRUE, FALSE, <<>>)
  /\ UNCHANGED <<fs, books, queue, history, api_calls, inputs, reviews, threads, globals>>

Next ==
  \/ scan_library
  \/ api_deep_rescan
  \/ process_queue
  \/ \E history_id \in DOMAIN history : apply_fix(history_id)
  \/ \E queue_id \in QueueIds(queue) : api_remove_from_queue(queue_id)
  \/ \E book_id \in DOMAIN books : api_fix_structure_reversed(book_id)
  \/ \E history_id \in DOMAIN history : api_reject_fix(history_id)
  \/ \E history_id \in DOMAIN history : api_dismiss_error(history_id)
  \/ \E history_id \in DOMAIN history : api_undo(history_id)
  \/ \E library_paths \in inputs.library_paths : settings_page(library_paths)

Spec == Init /\ [][Next]_vars

(***************************************************************************)
(* build_new_path on its own: the initial state holds one input and one    *)
(* configuration, the step applies the function to them                    *)
(***************************************************************************)
\* a library path that resolve() has to normalise
LibUnresolved == << <<"m","n","t">>, <<".",".">>, <<"l","i","b">> >>

PathTemplates ==
  {DefaultTemplate,
   <<"{","a","u","t","h","o","r","}","/","{","s","e","r","i","e","s","}","/","{","s","e","r","i","e","s","_","n","u","m","}"," ","-"," ","{","t","i","t","l","e","}"," ","(","{","y","e","a","r","}",")">>,
   <<".",".","/","{","t","i","t","l","e","}"," ","[","{","e","d","i","t","i","o","n","}","]","/","{","y","e","a","r","}">>}

PathConfigs ==
  {[Config(TRUE, FALSE) EXCEPT !.naming_format = nf, !.series_grouping = sg,
                               !.library_paths = <<lib>>] :
     nf \in {"author/title", "author - title"}, sg \in BOOLEAN, lib \in {LibRoot}}
  \cup {[Config(TRUE, FALSE) EXCEPT !.naming_format = "custom",
                                    !.custom_naming_template = tpl,
                                    !.library_paths = <<lib>>] :
          tpl \in PathTemplates, lib \in {LibRoot, LibUnresolved}}

PathInputs ==
  {[Result(author, title, narrator, year) EXCEPT !.series = series,
                                                !.series_num = series_num,
                                                !.edition = edition] :
     author \in {<<"S","t","e","v","e","n"," ","B","o","y","e","t","t">>, <<"a",".",".","b">>, <<"?">>},
     title \in {<<"A","r","i","e","l">>, <<".",".">>, <<"x">>},
     narrator \in {<<>>, <<"A","l">>, <<"?">>},
     year \in {<<>>, <<"1","9","9","9">>, <<"/",".",".","/",".",".","/","x">>, <<".",".","/",".",".","/",".",".">>},
     series \in {<<>>, <<"S","a","g","a">>},
     series_num \in {<<>>, <<"1">>, <<"/","e","t","c">>},
     edition \in {<<>>, <<"2","n","d">>}}

PathInit ==
  /\ config \in PathConfigs
  /\ \E r \in PathInputs : inputs = [results |-> {r}, responses |-> {}, faults |-> {"none"},
                                  reviews |-> 0, library_paths |-> {}]
  /\ fs = {Dir(LibRoot)}
  /\ books = <<>>
  /\ queue = <<>>
  /\ history = <<>>
  /\ api_calls = 0
  /\ last = Call("init", TRUE, FALSE, <<>>)
  /\ reviews = 0
  /\ threads = NoThreads
  /\ globals = NoGlobals

\* new_path = build_new_path(lib_path, author, title, series=..., config=config)
build_path ==
  /\ last.op = "init"
  /\ \E r \in inputs.results :
       \E built \in {path_for(config.library_paths[1], r, r.narrator, r.year, r.edition,
                              r.variant, config)} :
         last' = Call("build_new_path", built.ok, built.raised,
                      << [LogEntry(0, 0, <<>>, <<>>, fs)
                            EXCEPT !.p = r, !.new_author = r.author,
                                   !.new_path = built.path] >>)
  /\ UNCHANGED <<fs, books, queue, history, api_calls, config, inputs, reviews, threads,
               globals>>

PathNext == build_path

SpecPath == PathInit /\ [][PathNext]_vars

(***************************************************************************)
(* rate_limit_wait and the metadata lookups that call it, run by threads   *)
(* beside each other.  Time is counted in ticks of half a second; the      *)
(* clock moves on its own, and a sleeping thread goes on once the clock    *)
(* has reached the end of its sleep.                                       *)
(***************************************************************************)
\* threads looking up metadata at the same time
LookupThreads == 2
\* lookups made in all
MaxLookups == 3
\* the ticks the clock runs on
ClockTicks == 6

\* min_delay of the sources, in ticks: 1.5 s and 2.5 s
API_RATE_LIMITS ==
  [openlibrary |-> [last_call |-> 0, min_delay |-> 3],
   googlebooks |-> [last_call |-> 0, min_delay |-> 5]]

\* the clock at the start: the zero last_call of an unused source is long ago
StartClock == API_RATE_LIMITS.googlebooks.min_delay

\* the clock stops here
MaxClock == StartClock + ClockTicks

\* no wait at all
no_wait_time(limit_info, now) == 0

\* wait_time = limit_info['min_delay'] - (now - limit_info['last_call'])
wait_time(limit_info, now) == limit_info.min_delay - (now - limit_info.last_call)

\* the tables and the tree stay as they are while the threads run
Quiet == UNCHANGED <<fs, books, queue, history, api_calls, config, inputs, last, reviews>>

\* an empty library and nothing recorded
QuietInit ==
  /\ fs = {Dir(LibRoot)}
  /\ books = <<>>
  /\ queue = <<>>
  /\ history = <<>>
  /\ api_calls = 0
  /\ inputs = [results |-> {}, responses |-> {}, faults |-> {"none"}, reviews |-> 0,
               library_paths |-> {}]
  /\ last = Call("init", TRUE, FALSE, <<>>)
  /\ reviews = 0

RateInit ==
  /\ QuietInit
  /\ config = Config(TRUE, FALSE)
  /\ threads = [t \in 1..LookupThreads |->
                  [pc |-> "idle", api |-> "", wake |-> 0]]
  /\ globals = [clock |-> StartClock, API_RATE_LIMITS |-> API_RATE_LIMITS,
                API_RATE_LOCK |-> 0, lookups |-> 0,
                calls |-> [api \in DOMAIN API_RATE_LIMITS |-> <<>>]]

\* search_openlibrary, search_google_books: the call of rate_limit_wait
search(t, api) ==
  /\ threads[t].pc = "idle" /\ globals.lookups < MaxLookups
  /\ threads' = [threads EXCEPT ![t].pc = "acquire", ![t].api = api]
  /\ globals' = [globals EXCEPT !.lookups = @ + 1]
  /\ Quiet

\* with API_RATE_LOCK:
acquire(t) ==
  /\ threads[t].pc = "acquire" /\ globals.API_RATE_LOCK = 0
  /\ globals' = [globals EXCEPT !.API_RATE_LOCK = t]
  /\ threads' = [threads EXCEPT ![t].pc = "locked"]
  /\ Quiet

\* now = time.time(); elapsed; wait_time; if wait_time > 0: time.sleep(wait_time)
measure(t) ==
  /\ threads[t].pc = "locked"
  /\ \E w \in {wait_time(globals.API_RATE_LIMITS[threads[t].api], globals.clock)} :
       threads' = [threads EXCEPT ![t].pc = IF w > 0 THEN "sleeping" ELSE "stamp",
                                  ![t].wake = IF w > 0 THEN globals.clock + w ELSE 0]
  /\ UNCHANGED globals /\ Quiet

\* time.sleep returns, no earlier than asked
wake(t) ==
  /\ threads[t].pc = "sleeping" /\ globals.clock >= threads[t].wake
  /\ threads' = [threads EXCEPT ![t].pc = "stamp"]
  /\ UNCHANGED globals /\ Quiet

\* API_RATE_LIMITS[api_name]['last_call'] = time.time(); the lock is released
\* and the request goes out
stamp(t) ==
  /\ threads[t].pc = "stamp"
  /\ globals' = [globals EXCEPT
                   !.API_RATE_LIMITS[threads[t].api].last_call = globals.clock,
                   !.calls[threads[t].api] = Append(@, globals.clock),
                   !.API_RATE_LOCK = 0]
  /\ threads' = [threads EXCEPT ![t].pc = "request"]
  /\ Quiet

\* requests.get(url, timeout=10) returns
respond(t) ==
  /\ threads[t].pc = "request"
  /\ threads' = [threads EXCEPT ![t].pc = "idle"]
  /\ UNCHANGED globals /\ Quiet

\* half a second passes
tick ==
  /\ globals.clock < MaxClock
  /\ globals' = [globals EXCEPT !.clock = @ + 1]
  /\ UNCHANGED threads /\ Quiet

RateNext ==
  \/ \E t \in DOMAIN threads : \E api \in DOMAIN API_RATE_LIMITS : search(t, api)
  \/ \E t \in DOMAIN threads : acquire(t)
  \/ \E t \in DOMAIN threads : measure(t)
  \/ \E t \in DOMAIN threads : wake(t)
  \/ \E t \in DOMAIN threads : stamp(t)
  \/ \E t \in DOMAIN threads : respond(t)
  \/ tick

SpecRate == RateInit /\ [][RateNext]_vars

(***************************************************************************)
(* The background worker beside the requests that start and stop it.  The  *)
(* library is counted, not kept: found is the number of entries the next   *)
(* scan will queue, pending the number of queue rows.  The state at the    *)
(* start is the one the main block leaves: start_worker() has run once.    *)
(* wanted tells which of start_worker and stop_worker was called last.     *)
(***************************************************************************)
\* request threads of the server
RequestThreads == 2
\* worker threads ever created
WorkerThreads == 3
\* entries of the library the first scan queues
WorkerItems == 3

\* what call_ai does in one process_queue: a list, nothing, or an element
\* that makes the loop raise
Outcomes == {"answers", "fails", "raises"}

\* unasked: the thread has begun a batch while worker_running was off
Request == [kind |-> "request", pc |-> "idle", unasked |-> FALSE]
Worker == [kind |-> "worker", pc |-> "loop", unasked |-> FALSE]

\* worker_thread.is_alive()
is_alive(t) == threads[t].pc # "stopped"

WorkerInit ==
  /\ QuietInit
  /\ config \in {Config(TRUE, FALSE), Config(FALSE, FALSE)}
  /\ threads = [t \in 1..RequestThreads |-> Request] \o <<Worker>>
  /\ \E llm \in (SUBSET Outcomes) \ {{}} : \E found \in {0, WorkerItems} :
       globals = [clock |-> 0, worker_running |-> TRUE,
                  worker_thread |-> RequestThreads + 1,
                  found |-> found, pending |-> 0, api_calls |-> 0, llm |-> llm,
                  wanted |-> TRUE]

\* the calls of start_worker under way
Starting == {t \in DOMAIN threads : threads[t].kind = "request" /\ threads[t].pc # "idle"}

\* POST /api/worker/start arrives; no more calls are made than threads can
\* be created
api_start_worker(t) ==
  /\ threads[t].kind = "request" /\ threads[t].pc = "idle"
  /\ Len(threads) + Cardinality(Starting) < RequestThreads + WorkerThreads
  /\ threads' = [threads EXCEPT ![t].pc = "start_worker"]
  /\ globals' = [globals EXCEPT !.wanted = TRUE]
  /\ Quiet

\* if worker_thread and worker_thread.is_alive(): return
start_worker_check(t) ==
  /\ threads[t].pc = "start_worker"
  /\ threads' = [threads EXCEPT ![t].pc =
                   IF globals.worker_thread # 0 /\ is_alive(globals.worker_thread)
                   THEN "idle" ELSE "set_running"]
  /\ UNCHANGED globals /\ Quiet

\* worker_running = True
start_worker_set(t) ==
  /\ threads[t].pc = "set_running"
  /\ globals' = [globals EXCEPT !.worker_running = TRUE]
  /\ threads' = [threads EXCEPT ![t].pc = "start_thread"]
  /\ Quiet

\* worker_thread = threading.Thread(target=background_worker); worker_thread.start()
start_worker_thread(t) ==
  /\ threads[t].pc = "start_thread"
  /\ Len(threads) < RequestThreads + WorkerThreads
  /\ globals' = [globals EXCEPT !.worker_thread = Len(threads) + 1]
  /\ threads' = Append([threads EXCEPT ![t].pc = "idle"], Worker)
  /\ Quiet

\* POST /api/worker/stop: stop_worker() is one assignment
stop_worker(t) ==
  /\ threads[t].kind = "request" /\ threads[t].pc = "idle"
  /\ globals.worker_running \/ globals.wanted
  /\ globals' = [globals EXCEPT !.worker_running = FALSE, !.wanted = FALSE]
  /\ UNCHANGED threads /\ Quiet

\* while worker_running:
worker_loop(w) ==
  /\ threads[w].pc = "loop"
  /\ threads' = [threads EXCEPT ![w].pc = IF globals.worker_running THEN "scan" ELSE "stopped"]
  /\ UNCHANGED globals /\ Quiet

\* scan_library(config); if config.get('auto_fix'): process_all_queue(config)
worker_scan(w) ==
  /\ threads[w].pc = "scan"
  /\ globals' = [globals EXCEPT !.pending = @ + globals.found, !.found = 0]
  /\ threads' = [threads EXCEPT ![w].pc = IF config.auto_fix THEN "count" ELSE "interval"]
  /\ Quiet

\* process_all_queue up to its loop: an empty queue returns at once
worker_count(w) ==
  /\ threads[w].pc = "count"
  /\ threads' = [threads EXCEPT ![w].pc = IF globals.pending = 0 THEN "interval" ELSE "batch"]
  /\ UNCHANGED globals /\ Quiet

\* one round of the while True of process_all_queue: the rate check, and
\* process_queue with what it returns
worker_batch(w) ==
  /\ threads[w].pc = "batch"
  /\ IF globals.api_calls >= config.max_requests_per_hour
     THEN /\ threads' = [threads EXCEPT ![w].pc = "rate_limited"]
          /\ UNCHANGED globals
     ELSE IF globals.pending = 0
     THEN /\ threads' = [threads EXCEPT ![w].pc = "interval"]
          /\ UNCHANGED globals
     ELSE \E outcome \in globals.llm :
          /\ threads' = [threads EXCEPT
                           ![w].pc = CASE outcome = "answers" -> "between"
                                       [] outcome = "fails" -> "retry"
                                       [] OTHER -> "interval",
                           ![w].unasked = @ \/ ~globals.worker_running]
          /\ globals' = [globals EXCEPT
                           !.api_calls = IF outcome = "raises" THEN @ ELSE @ + 1,
                           !.pending = IF outcome = "answers"
                                       THEN @ - MinOf({@, config.batch_size}) ELSE @]
  /\ Quiet

\* time.sleep(wait_time), time.sleep(10), time.sleep(min_delay): and continue
worker_continue(w) ==
  /\ threads[w].pc \in {"rate_limited", "retry", "between"}
  /\ threads' = [threads EXCEPT ![w].pc = "batch"]
  /\ UNCHANGED globals /\ Quiet

\* the interval sleep, left at its end or once worker_running is off
worker_interval(w) ==
  /\ threads[w].pc = "interval"
  /\ threads' = [threads EXCEPT ![w].pc = "loop"]
  /\ UNCHANGED globals /\ Quiet

\* the date changes: the stats row of the new day has no calls
midnight ==
  /\ globals.api_calls > 0
  /\ globals' = [globals EXCEPT !.api_calls = 0]
  /\ UNCHANGED threads /\ Quiet

WorkerNext ==
  \/ \E t \in DOMAIN threads : api_start_worker(t)
  \/ \E t \in DOMAIN threads : start_worker_check(t)
  \/ \E t \in DOMAIN threads : start_worker_set(t)
  \/ \E t \in DOMAIN threads : start_worker_thread(t)
  \/ \E t \in DOMAIN threads : stop_worker(t)
  \/ \E w \in DOMAIN threads : worker_loop(w)
  \/ \E w \in DOMAIN threads : worker_scan(w)
  \/ \E w \in DOMAIN threads : worker_count(w)
  \/ \E w \in DOMAIN threads : worker_batch(w)
  \/ \E w \in DOMAIN threads : worker_continue(w)
  \/ \E w \in DOMAIN threads : worker_interval(w)
  \/ midnight

SpecWorker == WorkerInit /\ [][WorkerNext]_vars

\* return worker_running and worker_thread is not None and worker_thread.is_alive()
is_worker_running ==
  globals.worker_running /\ globals.worker_thread # 0 /\ is_alive(globals.worker_thread)

\* a step of a thread that is not waiting for a request: a started thread
\* runs on, its sleeps end, a call of start_worker goes on to its return
ThreadStep(t) ==
  /\ t \in DOMAIN threads
  /\ \/ start_worker_check(t) \/ start_worker_set(t) \/ start_worker_thread(t)
     \/ worker_loop(t) \/ worker_scan(t) \/ worker_count(t) \/ worker_batch(t)
     \/ worker_continue(t) \/ worker_interval(t)

\* the same steps, with every thread scheduled again and again and the days
\* passing; requests arrive or not
SpecWorkerFair ==
  /\ SpecWorker
  /\ \A t \in 1..(RequestThreads + WorkerThreads) : WF_vars(ThreadStep(t))
  /\ WF_vars(midnight)

(***************************************************************************)
(* process_queue called by threads beside each other: the worker's batch   *)
(* and a POST /api/process, or two such requests.  Each call has its own   *)
(* connection.  What a call reads before its first write (the rate check   *)
(* and the SELECT of the batch) is one step; the written part, from the    *)
(* update of the stats to the commit, is a second step, since SQLite lets  *)
(* one connection write at a time.                                         *)
(***************************************************************************)
\* calls of process_queue running beside each other
Invocations == 2
\* config max_requests_per_hour where calls run beside each other
ConcurrentCalls == 2

\* batch: the rows the call fetched
Invocation == [pc |-> "idle", batch |-> <<>>]

ConcurrentWorlds ==
  {World(tree, [Config(a, FALSE) EXCEPT !.max_requests_per_hour = ConcurrentCalls],
         results, {}, {"none"}, 0) :
     tree \in {Messy, TreeOccupied}, a \in BOOLEAN,
     results \in {{Clean}, {Clean, CleanYear}, {Clean, NoResult}}}

ConcurrentInit ==
  /\ \E w \in ConcurrentWorlds : fs = w.fs /\ config = w.config /\ inputs = w.inputs
  /\ books = <<>>
  /\ queue = <<>>
  /\ history = <<>>
  /\ api_calls = 0
  /\ last = Call("init", TRUE, FALSE, <<>>)
  /\ reviews = 0
  /\ threads = [t \in 1..Invocations |-> Invocation]
  /\ globals = NoGlobals

\* process_queue as far as call_ai: check_rate_limit, the SELECT of the batch,
\* the request to the model; nothing is written
process_queue_begin(t) ==
  /\ threads[t].pc = "idle"
  /\ api_calls < config.max_requests_per_hour
  /\ \E batch \in {fetch_batch(Db, config.batch_size)} :
       /\ batch # <<>>
       /\ threads' = [threads EXCEPT ![t] = [pc |-> "called", batch |-> batch]]
  /\ UNCHANGED <<fs, books, queue, history, api_calls, config, inputs, last, reviews, globals>>

\* process_queue from the update of the stats to the commit, over the rows
\* fetched before
process_queue_finish(t) ==
  /\ threads[t].pc = "called"
  /\ \E st \in {[db |-> [Db EXCEPT !.api_calls = @ + 1], committed |-> Db, fs |-> fs,
                  log |-> <<>>, aborted |-> FALSE, processed |-> 0]} :
       \E out \in {no_results(st, threads[t].batch)}
                    \cup process_batch(st, threads[t].batch, config, inputs) :
         /\ Store(IF out.aborted THEN out.committed ELSE out.db)
         /\ fs' = out.fs
         /\ last' = [Call("process_queue", ~out.aborted, out.aborted, out.log)
                       EXCEPT !.processed = IF out.aborted THEN 0 ELSE out.processed]
  /\ threads' = [threads EXCEPT ![t] = Invocation]
  /\ UNCHANGED <<config, inputs, reviews, globals>>

ConcurrentNext ==
  \/ scan_library
  \/ \E t \in DOMAIN threads : process_queue_begin(t)
  \/ \E t \in DOMAIN threads : process_queue_finish(t)

SpecConcurrent == ConcurrentInit /\ [][ConcurrentNext]_vars

(***************************************************************************)
(* Scans and batches alone, with auto_fix off: every proposal waits for    *)
(* approval and nobody approves, rejects or undoes.                        *)
(***************************************************************************)
ManualWorlds ==
  {World(tree, Again(Config(FALSE, p)), results, {}, {"none"}, 0) :
     tree \in {Messy, TreeOccupied, TreeLoose}, p \in BOOLEAN,
     results \in {{Clean}, {Clean, Other}, {Clean, NoResult}}}

ManualInit ==
  /\ \E w \in ManualWorlds : fs = w.fs /\ config = w.config /\ inputs = w.inputs
  /\ books = <<>>
  /\ queue = <<>>
  /\ history = <<>>
  /\ api_calls = 0
  /\ last = Call("init", TRUE, FALSE, <<>>)
  /\ reviews = 0
  /\ threads = NoThreads
  /\ globals = NoGlobals

ManualNext ==
  \/ scan_library
  \/ process_queue

SpecManual == ManualInit /\ [][ManualNext]_vars

(***************************************************************************)
(* process_all_queue, one call after another on one thread, between the    *)
(* scans that fill the queue.  The function is cut at its sleeps: one step *)
(* is a round of its while True up to the next time.sleep or return.       *)
(* Beside it the date changes.  wait_time keeps the seconds the function   *)
(* went to sleep for.                                                      *)
(***************************************************************************)
\* rounds of one call that find the budget used up
MaxHits == 7
\* no scan is started once the history has this many records
MaxRecords == 2

\* the locals of process_all_queue
ProcessAll == [pc |-> "idle", rate_limit_hits |-> 0, wait_time |-> 0]

AllWorlds ==
  {World(tree, Config(TRUE, FALSE), results, {}, {"none"}, 0) :
     tree \in {Messy, TreeOccupied, TreeCollection, TreeLoose},
     results \in {{Clean}, {Clean, NoResult}, {Clean, Unsafe}}}

AllInit ==
  /\ \E w \in AllWorlds : fs = w.fs /\ config = w.config /\ inputs = w.inputs
  /\ books = <<>>
  /\ queue = <<>>
  /\ history = <<>>
  /\ api_calls = 0
  /\ last = Call("init", TRUE, FALSE, <<>>)
  /\ reviews = 0
  /\ threads = <<ProcessAll>>
  /\ globals = NoGlobals

\* the function is not running
Outside == threads[1].pc \in {"idle", "returned", "raised"}

\* the worker's scan_library(config), before its process_all_queue(config)
worker_scan_library ==
  /\ Outside
  /\ Cardinality(DOMAIN history) < MaxRecords
  /\ scan_library

\* min_delay = max(2, 3600 // max_per_hour)
min_delay(cfg) == MaxOf({2, 3600 \div cfg.max_requests_per_hour})

\* lines 3254-3276: SELECT COUNT(*) FROM queue; an empty queue returns (0, 0)
process_all_queue_call ==
  /\ Outside
  /\ threads' = [threads EXCEPT ![1] =
                   [ProcessAll EXCEPT !.pc = IF Len(queue) = 0 THEN "returned" ELSE "loop"]]
  /\ UNCHANGED <<globals>> /\ Quiet

\* lines 3283-3290: the budget is used up; no process_queue, a longer sleep
rate_limited ==
  /\ threads[1].pc = "loop"
  /\ api_calls >= config.max_requests_per_hour
  /\ threads[1].rate_limit_hits < MaxHits
  /\ threads' = [threads EXCEPT
                   ![1].rate_limit_hits = @ + 1,
                   ![1].wait_time = MinOf({300 * (threads[1].rate_limit_hits + 1), 1800}),
                   ![1].pc = "sleep"]
  /\ UNCHANGED <<globals>> /\ Quiet

\* where the round goes with what process_queue returned and the rows left
after_batch(processed, remaining) ==
  IF processed = 0
  THEN IF remaining = 0 THEN [ProcessAll EXCEPT !.pc = "returned"]
       ELSE [threads[1] EXCEPT !.pc = "sleep", !.wait_time = 10]
  ELSE [threads[1] EXCEPT !.pc = "sleep", !.wait_time = min_delay(config)]

\* lines 3292-3323 with process_queue on an empty batch: nothing is asked
empty_batch ==
  /\ threads[1].pc = "loop"
  /\ api_calls < config.max_requests_per_hour
  /\ fetch_batch(Db, config.batch_size) = <<>>
  /\ threads' = [threads EXCEPT ![1] = after_batch(0, Len(queue))]
  /\ UNCHANGED <<globals>> /\ Quiet

\* lines 3292-3323 with process_queue asking the model; an exception of
\* process_queue leaves process_all_queue too
batch_round ==
  /\ threads[1].pc = "loop"
  /\ api_calls < config.max_requests_per_hour
  /\ \E batch \in {fetch_batch(Db, config.batch_size)} :
       /\ batch # <<>>
       /\ \E st \in {[db |-> [Db EXCEPT !.api_calls = @ + 1], committed |-> Db, fs |-> fs,
                       log |-> <<>>, aborted |-> FALSE, processed |-> 0]} :
          \E out \in {no_results(st, batch)} \cup process_batch(st, batch, config, inputs) :
            /\ Store(IF out.aborted THEN out.committed ELSE out.db)
            /\ fs' = out.fs
            /\ last' = [Call("process_queue", ~out.aborted, out.aborted, out.log)
                          EXCEPT !.processed = IF out.aborted THEN 0 ELSE out.processed]
            /\ threads' = [threads EXCEPT ![1] =
                             IF out.aborted THEN [ProcessAll EXCEPT !.pc = "raised"]
                             ELSE after_batch(out.processed, Len(out.db.queue))]
  /\ UNCHANGED <<config, inputs, reviews, globals>>

\* time.sleep(...) is over: continue
wake_up ==
  /\ threads[1].pc = "sleep"
  /\ threads' = [threads EXCEPT ![1].pc = "loop"]
  /\ UNCHANGED <<globals>> /\ Quiet

\* the date changes: check_rate_limit reads the stats row of the new day
new_day ==
  /\ api_calls > 0
  /\ api_calls' = 0
  /\ UNCHANGED <<fs, books, queue, history, config, inputs, last, reviews, threads, globals>>

AllNext ==
  \/ worker_scan_library
  \/ process_all_queue_call
  \/ rate_limited
  \/ empty_batch
  \/ batch_round
  \/ wake_up
  \/ new_day

SpecAll == AllInit /\ [][AllNext]_vars

\* the model gave the batch at least one element
yields == batch_round /\ last'.log # <<>>

\* the running function goes on, its sleeps end, the days pass, and the
\* model does not leave every batch without an answer
SpecAllFair ==
  /\ SpecAll
  /\ WF_vars(rate_limited \/ empty_batch \/ batch_round \/ wake_up)
  /\ WF_vars(new_day)
  /\ SF_vars(yields)

(***************************************************************************)
(* process_queue with the list call_ai returns written out.  build_prompt  *)
(* labels the names ITEM_1, ITEM_2, ... and asks for an "item" field in    *)
(* every object of the answer; the answer is any list of labelled objects, *)
(* as long as the batch at most, in any order.  globals keeps the batch    *)
(* and the answer of the last call.                                        *)
(***************************************************************************)
TreeTwo == Messy \cup BookTree(<<"C","a","r","r">>, <<"A","r","i","e","l"," ","6","4","k">>, {<<"c",".","m","4","b">>})

LabelWorlds ==
  {World(TreeTwo, Again(Config(a, FALSE)), {Clean, Other}, {}, {"none"}, 0) : a \in BOOLEAN}

NoAnswer == [clock |-> 0, batch |-> <<>>, results |-> <<>>]

LabelInit ==
  /\ \E w \in LabelWorlds : fs = w.fs /\ config = w.config /\ inputs = w.inputs
  /\ books = <<>>
  /\ queue = <<>>
  /\ history = <<>>
  /\ api_calls = 0
  /\ last = Call("init", TRUE, FALSE, <<>>)
  /\ reviews = 0
  /\ threads = NoThreads
  /\ globals = NoAnswer

\* an object of the answer: its "item" field is ITEM_<item>
Labelled(item, result) == [item |-> item, result |-> result]

\* the lists the model can return for n names: no label twice
Answers(n, results) ==
  {a \in UNION {[1..m -> {Labelled(i, r) : i \in 1..n, r \in results}] : m \in 0..n} :
     \A j, k \in DOMAIN a : j # k => a[j].item # a[k].item}

\* zip(batch, results)
zip(batch, results) ==
  [k \in 1..MinOf({Len(batch), Len(results)}) |-> <<batch[k], results[k]>>]

\* for row, result in zip(batch, results): the loop body over the pairs
RECURSIVE process_pairs(_, _, _, _)
process_pairs(st, pairs, cfg, inp) ==
  IF pairs = <<>> \/ st.aborted THEN {st}
  ELSE UNION {process_pairs(s2, Tail(pairs), cfg, inp) :
                s2 \in process_item(st, Head(pairs)[1], Head(pairs)[2].result, cfg, inp)}

\* the scan, the last answer forgotten
scan_library_again ==
  /\ NextId(QueueIds(queue)) <= MaxQueue
  /\ Store(deep_scan_library(Db, fs, config.library_paths))
  /\ last' = Call("scan_library", TRUE, FALSE, <<>>)
  /\ globals' = NoAnswer
  /\ UNCHANGED <<fs, config, inputs, reviews, threads>>

\* process_queue, lines 2725-3120
process_queue_answered ==
  /\ api_calls < config.max_requests_per_hour
  /\ \E batch \in {fetch_batch(Db, config.batch_size)} :
       /\ batch # <<>>
       /\ \E results \in Answers(Len(batch), inputs.results) :
          \E st \in {[db |-> [Db EXCEPT !.api_calls = @ + 1], committed |-> Db, fs |-> fs,
                      log |-> <<>>, aborted |-> FALSE, processed |-> 0]} :
          \E out \in IF results = <<>> THEN {no_results(st, batch)}
                     ELSE process_pairs(st, zip(batch, results), config, inputs) :
            /\ Store(IF out.aborted THEN out.committed ELSE out.db)
            /\ fs' = out.fs
            /\ last' = [Call("process_queue", ~out.aborted, out.aborted, out.log)
                          EXCEPT !.processed = IF out.aborted THEN 0 ELSE out.processed]
            /\ globals' = [clock |-> 0, batch |-> batch, results |-> results]
  /\ UNCHANGED <<config, inputs, reviews, threads>>

LabelNext ==
  \/ scan_library_again
  \/ process_queue_answered

SpecLabels == LabelInit /\ [][LabelNext]_vars

(***************************************************************************)
(* is_drastic_author_change on its own: the initial state holds the two    *)
(* names, the step applies the function and keeps what it returned         *)
(***************************************************************************)
AuthorNames ==
  {<<>>, <<" ">>, <<"U","n","k","n","o","w","n">>, <<"B","o","y","e","t","t">>, <<" ","b","o","y","e","t","t"," ">>, <<"S","t","e","v","e","n"," ","B","o","y","e","t","t">>, <<"J","o","h","n"," ","C","a","r","r">>,
   <<"J","o","h","n","s","o","n">>, <<"J","."," ","R",".">>, <<"J",".","R",".","R","."," ","T","o","l","k","i","e","n">>, <<"T","o","l","k","i","e","n">>, <<"J","o","h","n"," ","R","o","n","a","l","d"," ","R","e","u","e","l"," ","T","o","l","k","i","e","n">>}

DrasticInit ==
  /\ QuietInit
  /\ config = Config(TRUE, TRUE)
  /\ threads = NoThreads
  /\ \E old_author \in AuthorNames : \E new_author \in AuthorNames :
       globals = [clock |-> 0, old_author |-> old_author, new_author |-> new_author,
                  called |-> FALSE, returned |-> FALSE]

\* drastic_change = is_drastic_author_change(row['current_author'], new_author)
drastic_change ==
  /\ ~globals.called
  /\ \E d \in is_drastic_author_change(globals.old_author, globals.new_author) :
       globals' = [globals EXCEPT !.called = TRUE, !.returned = d]
  /\ UNCHANGED threads /\ Quiet

DrasticNext == drastic_change

SpecDrastic == DrasticInit /\ [][DrasticNext]_vars

(***************************************************************************)
(* calculate_title_similarity and is_garbage_match on their own.  A        *)
(* similarity is kept as the fraction the code divides: num / den.         *)
(***************************************************************************)
stop_words ==
  {<<"t","h","e">>, <<"a">>, <<"a","n">>, <<"o","f">>, <<"a","n","d">>, <<"o","r">>, <<"i","n">>, <<"t","o">>, <<"f","o","r">>, <<"b","y">>,
   <<"p","a","r","t">>, <<"b","o","o","k">>, <<"v","o","l","u","m","e">>}

\* t.lower(); re.sub(r'[^\w\s]', ' ', t); set(t.split()) - stop_words
normalize(t) ==
  Let(Lower(t), LAMBDA low :
    SeqToSet(SplitWords([i \in DOMAIN low |->
                           IF low[i] \in WordChars \cup SpaceChars THEN low[i] ELSE " "]))
      \ stop_words)

\* 0.0
Zero == [num |-> 0, den |-> 1]

\* len(intersection) / len(union), or 0.0 for an empty title or word set
calculate_title_similarity(title1, title2) ==
  IF title1 = <<>> \/ title2 = <<>> THEN Zero
  ELSE IF normalize(title1) = {} \/ normalize(title2) = {} THEN Zero
  ELSE [num |-> Cardinality(normalize(title1) \cap normalize(title2)),
        den |-> Cardinality(normalize(title1) \cup normalize(title2))]

\* similarity < threshold, similarity >= 0.2: the threshold is 0.3
below_threshold(similarity) == 10 * similarity.num < 3 * similarity.den
lenient_enough(similarity) == 10 * similarity.num >= 2 * similarity.den

\* len([w for w in original_title.lower().split() if len(w) > 2])
orig_words(original_title) ==
  Len(SelectSeq(SplitWords(Lower(original_title)), LAMBDA w : Len(w) > 2))

\* the function without its leniency for short originals
is_garbage_match_strict(original_title, suggested_title) ==
  below_threshold(calculate_title_similarity(original_title, suggested_title))

is_garbage_match(original_title, suggested_title) ==
  Let(calculate_title_similarity(original_title, suggested_title), LAMBDA similarity :
    IF orig_words(original_title) <= 2 /\ lenient_enough(similarity) THEN FALSE
    ELSE IF below_threshold(similarity) THEN TRUE
    ELSE FALSE)

Titles ==
  {<<>>, <<"A","r","i","e","l">>, <<"A","R","I","E","L",":"," ","a"," ","n","o","v","e","l">>, <<"T","h","e"," ","B","o","o","k">>, <<"M","r","."," ","M","u","r","d","e","r">>, <<"F","r","a","n","k","e","n","s","t","e","i","n">>,
   <<"D","e","a","t","h"," ","G","e","n","e","s","i","s">>, <<"T","h","e"," ","D","a","r","k","b","o","r","n"," ","A","f","t","e","r","L","i","f","e"," ","G","e","n","e","s","i","s">>, <<"L","o","r","d"," ","o","f"," ","t","h","e"," ","R","i","n","g","s">>,
   <<"T","h","e"," ","L","o","r","d"," ","o","f"," ","t","h","e"," ","F","l","i","e","s">>, <<"L","o","r","d"," ","J","i","m"," ","a","n","d"," ","O","t","h","e","r"," ","S","t","o","r","i","e","s">>}

GarbageInit ==
  /\ QuietInit
  /\ config = Config(TRUE, TRUE)
  /\ threads = NoThreads
  /\ \E original_title \in Titles : \E suggested_title \in Titles :
       globals = [clock |-> 0, original_title |-> original_title,
                  suggested_title |-> suggested_title, called |-> FALSE,
                  returned |-> FALSE]

\* if is_garbage_match(clean_title, suggested_title): the hit is dropped
garbage_check ==
  /\ ~globals.called
  /\ globals' = [globals EXCEPT
                   !.called = TRUE,
                   !.returned = is_garbage_match(globals.original_title,
                                                 globals.suggested_title)]
  /\ UNCHANGED threads /\ Quiet

GarbageNext == garbage_check

SpecGarbage == GarbageInit /\ [][GarbageNext]_vars

(***************************************************************************)
(* The candidates verify_drastic_change gathers for the verification       *)
(* prompt.  A search of one API answers with one hit or with None; what    *)
(* each search finds is part of the initial state.  A candidate is the     *)
(* hit's dict with the search_query the gathering adds.                    *)
(***************************************************************************)
\* the first two of the five (name, search function) pairs
apis == <<"BookDB", "Audnexus">>

NoHit == [found |-> FALSE, author |-> <<>>, title |-> <<>>, source |-> ""]
Hit(author, title) == [found |-> TRUE, author |-> author, title |-> title, source |-> ""]

\* what a search can answer
Hits == {NoHit, Hit(<<"S","t","e","v","e","n"," ","B","o","y","e","t","t">>, <<"A","r","i","e","l">>), Hit(<<"s","t","e","v","e","n"," ","b","o","y","e","t","t">>, <<"A","R","I","E","L">>)}

\* the searches of one verification: which gathering, which API, and whether
\* the author went with the title
Searches == {"original", "proposed"} \X {1, 2} \X BOOLEAN

Proposed == {[author |-> <<"S","t","e","v","e","n"," ","B","o","y","e","t","t">>, title |-> <<"A","r","i","e","l">>],
             [author |-> <<"B","o","y","e","t","t">>, title |-> <<"A","r","i","e","l">>]}

CandidatesInit ==
  /\ QuietInit
  /\ config = Config(TRUE, TRUE)
  /\ threads = NoThreads
  /\ \E found \in [Searches -> Hits] : \E p \in Proposed :
       globals = [clock |-> 0, found |-> found,
                  original_author |-> <<"B","o","y","e","t","t">>, original_title |-> <<"A","r","i","e","l"," ","6","4","k">>,
                  proposed_author |-> p.author, proposed_title |-> p.title,
                  called |-> FALSE, candidates |-> <<>>]

\* result['search_query'] = ...; candidates.append(result)
Candidate(result, api, search_query) ==
  [author |-> result.author, title |-> result.title, source |-> apis[api],
   search_query |-> search_query]

\* lines 1106-1130 for one API: the candidates its two searches add
api_candidates(found, which, api, clean_title, author) ==
  LET result == found[<<which, api, TRUE>>]
      result_no_author == found[<<which, api, FALSE>>]
      first == IF result.found /\ ~is_garbage_match(clean_title, result.title)
               THEN << Candidate(result, api,
                                 IF author # <<>> THEN author \o <<" ","-"," ">> \o clean_title
                                 ELSE clean_title) >>
               ELSE <<>>
      second == IF author # <<>> /\ result_no_author.found
                   /\ ~is_garbage_match(clean_title, result_no_author.title)
                   /\ (~result.found \/ result_no_author.author # result.author)
                THEN << Candidate(result_no_author, api, clean_title) >>
                ELSE <<>>
  IN first \o second

\* key = f"{c.get('author', '').lower()}|{c.get('title', '').lower()}"
key(c) == Lower(c.author) \o <<"|">> \o Lower(c.title)

\* lines 1132-1139: the first candidate of every key
RECURSIVE unique_candidates(_, _)
unique_candidates(candidates, seen) ==
  IF candidates = <<>> THEN <<>>
  ELSE IF key(Head(candidates)) \in seen THEN unique_candidates(Tail(candidates), seen)
  ELSE <<Head(candidates)>>
         \o unique_candidates(Tail(candidates), seen \cup {key(Head(candidates))})

gather_all_api_candidates(found, which, title, author) ==
  LET clean_title == clean_search_title(title)
  IN IF clean_title = <<>> \/ Len(clean_title) < 3 THEN <<>>
     ELSE unique_candidates(
            api_candidates(found, which, 1, clean_title, author)
              \o api_candidates(found, which, 2, clean_title, author), {})

\* for c in more_candidates: if c not in candidates: candidates.append(c)
RECURSIVE append_new(_, _)
append_new(candidates, more_candidates) ==
  IF more_candidates = <<>> THEN candidates
  ELSE append_new(IF \E i \in DOMAIN candidates : candidates[i] = Head(more_candidates)
                  THEN candidates ELSE Append(candidates, Head(more_candidates)),
                  Tail(more_candidates))

\* lines 1219-1227 of verify_drastic_change
verification_candidates(found, original_author, original_title, proposed_author, proposed_title) ==
  LET candidates == gather_all_api_candidates(found, "original", original_title,
                                              original_author)
  IN IF proposed_author # <<>> /\ proposed_author # original_author
     THEN append_new(candidates,
                     gather_all_api_candidates(found, "proposed", proposed_title,
                                               proposed_author))
     ELSE candidates

\* verify_drastic_change as far as build_verification_prompt
gather_candidates ==
  /\ ~globals.called
  /\ globals' = [globals EXCEPT
                   !.called = TRUE,
                   !.candidates = verification_candidates(globals.found,
                                    globals.original_author, globals.original_title,
                                    globals.proposed_author, globals.proposed_title)]
  /\ UNCHANGED threads /\ Quiet

CandidatesNext == gather_candidates

SpecCandidates == CandidatesInit /\ [][CandidatesNext]_vars

(***************************************************************************)
(* analyze_full_path on the folders of one audio file below a library      *)
(* root.  is_known_author and is_known_series answer (found, succeeded);   *)
(* what they answer for each folder is part of the initial state.  steps   *)
(* keeps, for every folder looked up, the answers and the branch taken.    *)
(***************************************************************************)
PersonPatterns ==
  << Cat(<<Bol, Cls(UpperChars), Plus(Cls(LowerChars)), Plus(Cls(SpaceChars)), Cls(UpperChars), Plus(Cls(LowerChars)), Eol>>),
     Cat(<<Bol, Cls(UpperChars), Plus(Cls(LowerChars)), Plus(Cls(SpaceChars)), Cls(UpperChars), Plus(Cls(LowerChars)), Plus(Cls(SpaceChars)), Cls(UpperChars), Plus(Cls(LowerChars)), Eol>>),
     Cat(<<Bol, Cls(UpperChars), Lit(<<".">>), Star(Cls(SpaceChars)), Cls(UpperChars), Plus(Cls(LowerChars)), Eol>>),
     Cat(<<Bol, Cls(UpperChars), Plus(Cls(LowerChars)), Plus(Cls(SpaceChars)), Cls(UpperChars), Lit(<<".">>), Star(Cls(SpaceChars)), Cls(UpperChars), Plus(Cls(LowerChars)), Eol>>),
     Cat(<<Bol, Cls(UpperChars), Plus(Cls(LowerChars)), Lit(<<",">>), Plus(Cls(SpaceChars)), Cls(UpperChars), Plus(Cls(LowerChars)), Eol>>),
     Cat(<<Bol, Cls(UpperChars), Lit(<<".">>), Plus(Cat(<<Cls(UpperChars), Lit(<<".">>)>>)), Star(Cls(SpaceChars)), Cls(UpperChars), Plus(Cls(LowerChars)), Eol>>) >>

DiscPatterns ==
  << Cat(<<Bol, Alt(<<Lit(<<"d","i","s","c">>), Lit(<<"d","i","s","k">>), Lit(<<"c","d">>), Lit(<<"d","v","d">>)>>), Star(Cls(SpaceChars)), Plus(Cls(DigitChars))>>),
     Cat(<<Bol, Alt(<<Lit(<<"p","a","r","t">>), Lit(<<"c","h","a","p","t","e","r">>), Lit(<<"c","h">>)>>), Star(Cls(SpaceChars)), Plus(Cls(DigitChars))>>),
     Cat(<<Bol, Plus(Cls(DigitChars)), Star(Cls(SpaceChars)), Cls({"-"}), Star(Cls(SpaceChars)), Alt(<<Lit(<<"d","i","s","c">>), Lit(<<"d","i","s","k">>), Lit(<<"c","d">>), Lit(<<"p","a","r","t">>)>>)>>),
     Cat(<<Bol, Lit(<<"s","i","d","e">>), Star(Cls(SpaceChars)), Cls({"a","b","1","2"})>>),
     Cat(<<Bol, Rep(Cls(DigitChars), 1, 2), Eol>>) >>

BookNumberPatterns ==
  << Cat(<<Bol, Alt(<<Lit(<<"b","o","o","k">>), Lit(<<"v","o","l">>), Lit(<<"v","o","l","u","m","e">>), Lit(<<"p","a","r","t">>)>>), Star(Cls(SpaceChars)), Plus(Cls(DigitChars))>>),
     Cat(<<Bol, Plus(Cls(DigitChars)), Star(Cls(SpaceChars)), Cls({"-",":","."}), Star(Cls(SpaceChars)), Cls(WordChars)>>),
     Cat(<<Bol, Opt(Lit(<<"#">>)), Plus(Cls(DigitChars)), Star(Cls(SpaceChars)), Cls({"-",":"})>>) >>

SeriesNamePatterns ==
  << Cat(<<Wb, Lit(<<"s","e","r","i","e","s">>), Wb>>), Cat(<<Wb, Lit(<<"s","a","g","a">>), Wb>>), Cat(<<Wb, Lit(<<"c","h","r","o","n","i","c","l","e","s">>), Wb>>), Cat(<<Wb, Lit(<<"t","r","i","l","o","g","y">>), Wb>>),
     Cat(<<Wb, Lit(<<"c","y","c","l","e">>), Wb>>), Cat(<<Wb, Lit(<<"u","n","i","v","e","r","s","e">>), Wb>>), Cat(<<Wb, Lit(<<"b","o","o","k">>), Opt(Lit(<<"s">>)), Wb>>) >>

looks_like_person_name(name) == AnyMatch(PersonPatterns, name)
looks_like_disc_chapter(name) == AnySearch(DiscPatterns, Lower(name))
looks_like_book_number(name) == AnySearch(BookNumberPatterns, Lower(name))
looks_like_title_with_year(name) == Search(Cat(<<Wb, Alt(<<Cat(<<Lit(<<"1","9">>), Rep(Cls(DigitChars), 2, 2)>>), Cat(<<Lit(<<"2","0">>), Rep(Cls(DigitChars), 2, 2)>>)>>), Wb>>), name)
looks_like_series_name(name) == AnySearch(SeriesNamePatterns, Lower(name))

\* re.match(r'^(.+?)\s*(?:book|vol)\s*\d+\s*[-–:]\s*(.+)$', folder, re.IGNORECASE):
\* where group 1 ends and where group 2 starts, <<>> without a match
book_num_match(folder) ==
  LET low == Lower(folder)
      mid == Cat(<<Star(Cls(SpaceChars)), Alt(<<Lit(<<"b","o","o","k">>), Lit(<<"v","o","l">>)>>), Star(Cls(SpaceChars)), Plus(Cls(DigitChars)), Star(Cls(SpaceChars)), Cls({"-",":"})>>)
      after(a) == {b \in Ends(mid, low, a) : b <= Len(low)}
      as == {a \in 2..(Len(low) + 1) : after(a) # {}}
  IN IF as = {} THEN <<>>
     ELSE LET a == MinOf(as)
              b == MaxOf(after(a))
              spaces == SpaceRun(SubSeq(low, b, Len(low)))
          IN <<a, IF b + spaces > Len(low) THEN Len(low) ELSE b + spaces>>

\* the answers of a lookup: found, not found, and the failed lookup
Found == [found |-> TRUE, succeeded |-> TRUE]
NotFound == [found |-> FALSE, succeeded |-> TRUE]
LookupFailed == [found |-> FALSE, succeeded |-> FALSE]

\* the answer with a failed lookup taken for 'not found'
db_answer_trusting(result) == IF result.found THEN "yes" ELSE "no"

\* author_result[0] if author_result[1] else None: "none" is the None
db_answer(result) == IF result.succeeded THEN IF result.found THEN "yes" ELSE "no" ELSE "none"

NoRole == ""

Analysis ==
  [folder_roles |-> <<>>, issues |-> <<>>, detected_author |-> <<>>,
   detected_title |-> <<>>, detected_series |-> <<>>, book_folder_idx |-> 0,
   steps |-> <<>>]

\* folder_roles[folder] = role
SetRole(st, folder, role) ==
  [st EXCEPT !.folder_roles =
     [n \in DOMAIN @ \cup {folder} |-> IF n = folder THEN role ELSE @[n]]]

Step(i, folder, author_result, series_result, branch, role) ==
  [i |-> i, folder |-> folder, author_result |-> author_result,
   series_result |-> series_result, branch |-> branch, role |-> role]

\* what a branch leaves: the role, and the author or the series it detects
Decided(st, i, folder, lookup, branch, role, author, series) ==
  [(IF role = NoRole THEN st ELSE SetRole(st, folder, role)) EXCEPT
     !.detected_author = IF author THEN folder ELSE @,
     !.detected_series = IF series THEN folder ELSE @,
     !.steps = Append(@, Step(i, folder, lookup.author, lookup.series, branch, role))]

\* folder_roles[folder] = 'series'; if detected_series is None: detected_series = folder
AsSeries(st, i, folder, lookup, branch) ==
  Decided(st, i, folder, lookup, branch, "series", FALSE, st.detected_series = <<>>)

\* lines 1931-1951: a lookup failed; patterns and position only
patterns_only(st, i, folder, lookup, parent_is_person, is_middle_position) ==
  Let([st EXCEPT !.issues = IF \E k \in DOMAIN @ : @[k] = "db_lookup_failed"
                            THEN @ ELSE Append(@, "db_lookup_failed")], LAMBDA s1 :
    IF looks_like_person_name(folder)
    THEN Decided(s1, i, folder, lookup, "patterns", "author", TRUE, FALSE)
    ELSE IF looks_like_book_number(folder)
    THEN Decided(s1, i, folder, lookup, "patterns", "book_number", FALSE, FALSE)
    ELSE IF looks_like_series_name(folder) \/ looks_like_title_with_year(folder)
    THEN AsSeries(s1, i, folder, lookup, "patterns")
    ELSE IF s1.detected_author = <<>>
    THEN IF parent_is_person /\ is_middle_position
         THEN Decided(s1, i, folder, lookup, "patterns", "series", FALSE, TRUE)
         ELSE Decided(s1, i, folder, lookup, "patterns", "likely_author", TRUE, FALSE)
    ELSE Decided(s1, i, folder, lookup, "patterns", NoRole, FALSE, FALSE))

\* lines 1953-2009: both lookups answered
with_database(st, i, folder, lookup, db_is_author, db_is_series, parent_is_person, is_middle_position) ==
  IF db_is_author /\ ~db_is_series
  THEN IF parent_is_person /\ is_middle_position /\ ~looks_like_person_name(folder)
       THEN AsSeries(st, i, folder, lookup, "database")
       ELSE Decided(st, i, folder, lookup, "database", "author", TRUE, FALSE)
  ELSE IF db_is_series /\ ~db_is_author
  THEN AsSeries(st, i, folder, lookup, "database")
  ELSE IF db_is_author /\ db_is_series
  THEN IF parent_is_person /\ is_middle_position
       THEN AsSeries(st, i, folder, lookup, "database")
       ELSE IF looks_like_person_name(folder) /\ ~is_middle_position
       THEN Decided(st, i, folder, lookup, "database", "author", TRUE, FALSE)
       ELSE AsSeries(st, i, folder, lookup, "database")
  ELSE IF looks_like_person_name(folder)
  THEN Decided(st, i, folder, lookup, "database", "author", TRUE, FALSE)
  ELSE IF looks_like_book_number(folder)
  THEN [Decided(st, i, folder, lookup, "database", "book_number", FALSE, FALSE) EXCEPT
          !.detected_title = IF @ # <<>> /\ looks_like_book_number(@) THEN folder ELSE @]
  ELSE IF looks_like_series_name(folder) \/ looks_like_title_with_year(folder)
  THEN AsSeries(st, i, folder, lookup, "database")
  ELSE IF st.detected_author = <<>>
  THEN IF st.book_folder_idx # 0 /\ i < st.book_folder_idx /\ ~looks_like_person_name(folder)
          /\ parent_is_person
       THEN Decided(st, i, folder, lookup, "database", "series", FALSE, TRUE)
       ELSE Decided(st, i, folder, lookup, "database", "likely_author", TRUE, FALSE)
  ELSE Decided(st, i, folder, lookup, "database", NoRole, FALSE, FALSE)

\* the first folder from the bottom that is no disc or chapter folder
book_title(st, i, folder) ==
  Let(book_num_match(folder), LAMBDA m :
    [SetRole(st, folder, "book_title") EXCEPT
       !.book_folder_idx = i,
       !.detected_title = IF m = <<>> THEN folder
                          ELSE Strip(SubSeq(folder, m[2], Len(folder))),
       !.detected_series = IF m = <<>> THEN @ ELSE Strip(SubSeq(folder, 1, m[1] - 1))])

\* the body of 'for i in range(len(folders) - 1, -1, -1)'
classify(st, folders, lookups, i) ==
  IF looks_like_disc_chapter(folders[i]) THEN SetRole(st, folders[i], "disc_chapter")
  ELSE IF st.book_folder_idx = 0 THEN book_title(st, i, folders[i])
  ELSE Let(i > 1 /\ looks_like_person_name(folders[i - 1]), LAMBDA parent_is_person :
       Let(st.book_folder_idx # 0 /\ i < st.book_folder_idx, LAMBDA is_middle_position :
         IF db_answer(lookups[i].author) = "none" \/ db_answer(lookups[i].series) = "none"
         THEN patterns_only(st, i, folders[i], lookups[i], parent_is_person,
                            is_middle_position)
         ELSE with_database(st, i, folders[i], lookups[i],
                            db_answer(lookups[i].author) = "yes",
                            db_answer(lookups[i].series) = "yes",
                            parent_is_person, is_middle_position)))

RECURSIVE classify_folders(_, _, _, _)
classify_folders(st, folders, lookups, i) ==
  IF i = 0 THEN st
  ELSE classify_folders(classify(st, folders, lookups, i), folders, lookups, i - 1)

\* lines 2023-2039: the issues added at the end, and the swap
validated(st) ==
  Let(st.detected_author, LAMBDA a : Let(st.detected_title, LAMBDA t :
    [st EXCEPT
       !.issues = @
         \o (IF a # <<>> /\ ~looks_like_person_name(a)
             THEN <<"author_not_name_pattern">> ELSE <<>>)
         \o (IF a # <<>> /\ looks_like_title_with_year(a)
             THEN <<"author_looks_like_title">> ELSE <<>>)
         \o (IF t # <<>> /\ looks_like_person_name(t)
             THEN <<"title_looks_like_author">> ELSE <<>>)
         \o (IF a # <<>> /\ t # <<>> /\ looks_like_title_with_year(a)
                /\ looks_like_person_name(t)
             THEN <<"STRUCTURE_LIKELY_REVERSED">> ELSE <<>>),
       !.detected_author = IF a # <<>> /\ t # <<>> /\ looks_like_title_with_year(a)
                              /\ looks_like_person_name(t) THEN t ELSE a,
       !.detected_title = IF a # <<>> /\ t # <<>> /\ looks_like_title_with_year(a)
                             /\ looks_like_person_name(t) THEN a ELSE t]))

\* analyze_full_path for a file inside the folders, lines 1782-2047
analyze_full_path(folders, lookups) ==
  validated(classify_folders(Analysis, folders, lookups, Len(folders)))

FolderPaths ==
  { << <<"S","t","e","p","h","e","n"," ","K","i","n","g">>, <<"D","a","r","k"," ","T","o","w","e","r">>, <<"T","h","e"," ","G","u","n","s","l","i","n","g","e","r">> >>,
    << <<"B","o","y","e","t","t">>, <<"S","a","g","a"," ","B","o","o","k"," ","1"," ","-"," ","A","r","i","e","l">>, <<"C","D","1">> >>,
    << <<"F","a","n","t","a","s","y">>, <<"K","i","n","g">>, <<"I","t"," ","1","9","8","6">> >>,
    << <<"A","u","d","i","o">>, <<"B","o","o","k"," ","2">>, <<"A","r","i","e","l">> >>,
    << <<"K","i","n","g">>, <<"K","i","n","g">>, <<"I","t">> >>,
    << <<"T","e","r","r","y"," ","P","r","a","t","c","h","e","t","t">>, <<"D","i","s","c","w","o","r","l","d">>, <<"M","o","r","t">> >>,
    << <<"P","r","a","t","c","h","e","t","t">>, <<"D","i","s","c","w","o","r","l","d"," ","s","e","r","i","e","s">>, <<"M","o","r","t">> >> }

LookupAnswers == {Found, NotFound, LookupFailed}

AnalyzeInit ==
  /\ QuietInit
  /\ config = Config(TRUE, TRUE)
  /\ threads = NoThreads
  /\ \E folders \in FolderPaths :
       \E lookups \in [DOMAIN folders -> [author : LookupAnswers, series : LookupAnswers]] :
         /\ lookups[Len(folders)] = [author |-> NotFound, series |-> NotFound]
         /\ globals = [clock |-> 0, folders |-> folders, lookups |-> lookups,
                       called |-> FALSE, result |-> Analysis]

\* script_result = analyze_full_path(audio_file, library_root)
analyze_path ==
  /\ ~globals.called
  /\ globals' = [globals EXCEPT
                   !.called = TRUE,
                   !.result = analyze_full_path(globals.folders, globals.lookups)]
  /\ UNCHANGED threads /\ Quiet

AnalyzeNext == analyze_path

SpecAnalyze == AnalyzeInit /\ [][AnalyzeNext]_vars

(***************************************************************************)
(* The properties                                                          *)
(***************************************************************************)
\* the log entries of the last call when that call was op
Entries(op) == IF last.op = op THEN {last.log[i] : i \in DOMAIN last.log} ELSE {}

\* the item was handled to its end: no exception left the loop at it
Handled(e) == e.outcome # "raised"

\* the item changed nothing on disk
Untouched(e) == e.fs1 = e.fs0

\* the author finally proposed is a drastic change, whichever of several
\* equally long name parts max() picks
FinallyDrastic(e) == is_drastic_author_change(e.old_author, e.new_author) = {TRUE}

Blocking(r) ==
  \/ ~r.answered
  \/ ~(r.decision = "CORRECT" /\ r.confidence \in {"HIGH", "MEDIUM"}) /\ r.decision # "WRONG"

\* C2: when the verifier was asked and its call failed or its answer neither
\* confirms nor corrects, the item is not renamed: the entry becomes
\* 'pending_fix', its queue row is deleted, the tree is untouched
C2_UnverifiedNeverRenamed ==
  \A e \in Entries("process_queue") :
    e.asked /\ Blocking(e.response)
      => /\ Untouched(e)
         /\ e.status = "pending_fix"
         /\ ~e.queued
         /\ last.ok => /\ e.queue_id \notin QueueIds(queue)
                       /\ books[e.book_id].status = "pending_fix"

\* a CORRECT of LOW confidence arrived with auto_fix on
C2_LowConfidenceBlocked ==
  \E e \in Entries("process_queue") :
    /\ config.auto_fix /\ e.asked
    /\ e.response.answered /\ e.response.decision = "CORRECT"
    /\ e.response.confidence = "LOW"
    /\ e.status = "pending_fix" /\ Untouched(e)

\* the destination is a folder with something in it
Occupied(f, path) == is_dir(f, path) /\ iterdir(f, path) # {}

\* C3: apply_fix on a record whose destination folder exists and is not empty
\* returns failure, marks the record 'error', and moves nothing
C3_OccupiedDestinationRefused ==
  \A e \in Entries("apply_fix") :
    Occupied(e.fs0, e.new_path)
      => /\ ~last.ok
         /\ history[e.history_id].status = "error"
         /\ Untouched(e)
         /\ fs = e.fs0

\* apply_fix met an existing source and an occupied destination
C3_RefusedAtDestination ==
  \E e \in Entries("apply_fix") :
    /\ Occupied(e.fs0, e.new_path) /\ is_dir(e.fs0, e.old_path)
    /\ e.outcome = "destination_exists"

\* none of the distinguishers the code tries gives a valid path that is free
NoFreePath(e) ==
  \A i \in DOMAIN distinguishers(e.p, e.new_path) :
    LET d == distinguishers(e.p, e.new_path)[i]
        t == path_for(library_of(e.old_path, config), e.p, e.p.narrator, d.year,
                      d.edition, d.variant, config)
    IN ~(t.ok /\ ~exists(e.fs0, t.path))

\* C4: in the auto-fix, a destination that exists and is not empty, with no
\* distinguisher giving a free path, marks the entry 'conflict', removes its
\* queue row, and moves, creates and deletes nothing
C4_ConflictLeavesTree ==
  \A e \in Entries("process_queue") :
    (config.auto_fix /\ Handled(e) /\ e.checked /\ ~e.drastic
     /\ Occupied(e.fs0, e.new_path) /\ NoFreePath(e))
      => /\ e.outcome = "conflict"
         /\ e.status = "conflict"
         /\ ~e.queued
         /\ Untouched(e)

\* the auto-fix found another book at the destination and a second one at the
\* path of the one distinguisher it could try
C4_ConflictMarked ==
  \E e \in Entries("process_queue") :
    /\ config.auto_fix /\ e.checked /\ ~e.drastic
    /\ distinguishers(e.p, e.new_path) # <<>>
    /\ Occupied(e.fs0, e.new_path) /\ NoFreePath(e)
    /\ e.status = "conflict"
    /\ last.ok /\ books[e.book_id].status = "conflict"

\* sanitize_path_component gives None for the name, or the name contains '..'
BadName(s) == sanitize_path_component(s) = <<>> \/ HasSub(s, <<".", ".">>)

\* path is resolved and lies at least one segment below root
StrictlyBelow(path, root) ==
  /\ Resolve(path) = path
  /\ IsRelativeTo(path, root)
  /\ Len(path) > Len(root)

\* C5: build_new_path returns None whenever author or title sanitizes to empty
\* or contains '..'; and in every naming mode a path it returns is a strict
\* descendant of the resolved library root
C5_PathBelowLibrary ==
  \A e \in Entries("build_new_path") :
    /\ (BadName(e.p.author) \/ BadName(e.p.title)) => (~last.ok /\ ~last.aborted)
    /\ last.ok => StrictlyBelow(e.new_path, Resolve(config.library_paths[1]))

\* a custom template filled with a year that climbs out of its folder, and a
\* path that was returned
C5_TraversalConfined ==
  \E e \in Entries("build_new_path") :
    /\ last.ok
    /\ config.naming_format = "custom"
    /\ HasSub(config.custom_naming_template, <<"{","y","e","a","r","}">>)
    /\ HasSub(e.p.year, <<".", ".">>)
    /\ e.new_path # <<>>

\* the folder name carries a multi-book-collection pattern
IsCollection(path) ==
  "multi_book_collection" \in SeqToSet(analyze_title(Name(path), Name(Parent(path))))

\* C6 as stated, for the renaming: process_queue never moves a folder whose
\* name matches a multi-book-collection pattern, nor marks its entry 'fixed'
C6_CollectionNeverRenamed ==
  \A e \in Entries("process_queue") :
    IsCollection(e.old_path) => Untouched(e) /\ e.status # "fixed"

\* a boxed set flagged 'needs_split' by the scan, re-queued by the deep rescan,
\* was renamed by process_queue
C6_CollectionRenamed ==
  \E e \in Entries("process_queue") :
    /\ IsCollection(e.old_path)
    /\ e.outcome = "fixed"
    /\ last.ok
    /\ ~exists(fs, e.old_path) /\ is_dir(fs, e.target)
    /\ books[e.book_id].status = "fixed"

\* C7 as stated: no entry has more than one row in the queue
C7_OneQueueRowPerEntry ==
  \A b \in DOMAIN books : Cardinality(QueuedFor(queue, b)) <= 1

\* a loose file queued by two scans
C7_LooseFileQueuedTwice ==
  \E b \in DOMAIN books :
    /\ books[b].status = "loose_file"
    /\ Cardinality(QueuedFor(queue, b)) >= 2
    /\ last.op = "scan_library"

\* the history rows that record the rename of entry b to its current path
FixedRecords(b) ==
  {h \in DOMAIN history :
     /\ history[h].book_id = b
     /\ history[h].status = "fixed"
     /\ history[h].new_path = books[b].path}

\* C8 as stated: every entry with status 'fixed' has a history record with
\* status 'fixed' whose new_path is the entry's path
C8_FixedHasHistory ==
  \A b \in DOMAIN books : books[b].status = "fixed" => FixedRecords(b) # {}

\* the structure-reversed fix moved a folder and marked its entry 'fixed', and
\* the history holds nothing about it
C8_ReversedFixUnrecorded ==
  \E e \in Entries("api_fix_structure_reversed") :
    /\ last.ok
    /\ books[e.book_id].status = "fixed"
    /\ books[e.book_id].path = e.target
    /\ is_dir(fs, e.target) /\ ~exists(fs, e.old_path)
    /\ \A h \in DOMAIN history : history[h].book_id # e.book_id

\* the folder is at the new path, and the committed database says so
MovedAndRecorded(e) ==
  /\ e.target # <<>>
  /\ exists(fs, e.target) /\ ~exists(fs, e.old_path)
  /\ e.book_id \in DOMAIN books
  /\ books[e.book_id].path = e.target
  /\ FixedRecords(e.book_id) # {}

\* the folder is at the old path, and so is the committed entry
NotMoved(e) ==
  /\ exists(fs, e.old_path)
  /\ e.book_id \in DOMAIN books
  /\ books[e.book_id].path = e.old_path

\* C9 as stated, for the calls an exception ends: every item of the batch is
\* either moved with its 'fixed' record and new path committed, or not moved
C9_AbortKeepsMoveAndRecord ==
  last.aborted => \A e \in Entries("process_queue") : MovedAndRecorded(e) \/ NotMoved(e)

\* the first item was renamed, the second raised: the folder is at the new
\* path, the committed entry still has the old path and its queue row, and
\* there is no history record
C9_MovedThenRolledBack ==
  \E e \in Entries("process_queue") :
    /\ last.aborted
    /\ e.outcome = "fixed"
    /\ exists(fs, e.target) /\ ~exists(fs, e.old_path)
    /\ books[e.book_id].path = e.old_path
    /\ e.queue_id \in QueueIds(queue)
    /\ history = <<>>

\* C10 as stated: when a filesystem step of the auto-fix raises, the folder is
\* still at its original path with its content, the entry's path is unchanged
\* and its status is 'error'
C10_FailedRenameLeavesFolder ==
  \A e \in Entries("process_queue") :
    e.outcome = "error" /\ e.fault # "none"
      => /\ exists(e.fs1, e.old_path)
         /\ Content(e.fs1, e.old_path) = Content(e.fs0, e.old_path)
         /\ e.path = e.old_path
         /\ e.status = "error"

\* rmdir of the empty destination raised after the folder had been moved to
\* <name>_temp: the folder is there, the entry has the old path
C10_FolderLeftAtTemp ==
  \E e \in Entries("process_queue") :
    /\ e.outcome = "error" /\ e.fault = "rmdir"
    /\ ~exists(e.fs1, e.old_path)
    /\ is_dir(e.fs1, Append(Parent(e.target), Name(e.target) \o <<"_", "t", "e", "m", "p">>))
    /\ e.path = e.old_path /\ e.status = "error"

(***************************************************************************)
(* C11: a 'fixed' history record under apply_fix, reject, dismiss and      *)
(* process_queue                                                           *)
(***************************************************************************)
ReviewOps == {"apply_fix", "api_reject_fix", "api_dismiss_error", "process_queue"}

\* C11: once a history record has status 'fixed', no call to apply_fix,
\* api_reject_fix, api_dismiss_error or process_queue changes its status or
\* deletes it; apply_fix on an already-fixed record leaves it 'fixed'
C11_FixedRecordStays ==
  [][\A h \in DOMAIN history :
       (history[h].status = "fixed" /\ last'.op \in ReviewOps)
         => (h \in DOMAIN history' /\ history'[h].status = "fixed")]_vars

\* a reject that named a 'fixed' record: the record is gone, the folder is
\* still at the new path
C11_FixedRecordRejected ==
  \E e \in Entries("api_reject_fix") :
    /\ e.record_status = "fixed"
    /\ e.history_id \notin DOMAIN history
    /\ exists(fs, e.new_path) /\ ~exists(fs, e.old_path)

(***************************************************************************)
(* C12: a 'protected' entry under scan_library                             *)
(***************************************************************************)
\* the ids of the queue rows of an entry
QueueRows(q, book_id) == {q[i].id : i \in QueuedFor(q, book_id)}

\* C12: once an undo has marked an entry 'protected', no scan_library run adds
\* a queue item for the entry or changes its status away from 'protected'
C12_ProtectedNotRequeued ==
  [][\A b \in DOMAIN books :
       (books[b].status = "protected" /\ last'.op = "scan_library")
         => /\ b \in DOMAIN books' /\ books'[b].status = "protected"
            /\ QueueRows(queue', b) \subseteq QueueRows(queue, b)]_vars

\* a scan has queued an entry whose rename was undone
C12_UndoneEntryQueued ==
  /\ last.op = "scan_library"
  /\ \E b \in DOMAIN books :
       /\ books[b].status = "protected"
       /\ \E h \in DOMAIN history :
            history[h].book_id = b /\ history[h].status = "undone"
            /\ books[b].path = history[h].old_path
       /\ \E i \in QueuedFor(queue, b) : queue[i].reason = "issues"

(***************************************************************************)
(* C13: api_deep_rescan and the 'protected' entries                        *)
(***************************************************************************)
\* C13: api_deep_rescan leaves every 'protected' entry unchanged (status, path,
\* author, title) and inserts no queue item for it, while every other entry is
\* reset to 'pending' and queued
C13_DeepRescanSparesProtected ==
  [][last'.op = "api_deep_rescan" =>
       /\ DOMAIN books' = DOMAIN books
       /\ \A b \in DOMAIN books :
            IF books[b].status = "protected"
            THEN books'[b] = books[b] /\ QueuedFor(queue', b) = {}
            ELSE /\ books'[b] = [books[b] EXCEPT !.status = "pending"]
                 /\ QueuedFor(queue', b) # {}]_vars

\* a deep rescan of a library holding an undone entry next to another one
C13_RescanWithProtected ==
  /\ last.op = "api_deep_rescan"
  /\ \E b \in DOMAIN books :
       /\ books[b].status = "protected" /\ QueuedFor(queue, b) = {}
       /\ \E h \in DOMAIN history : history[h].book_id = b /\ history[h].status = "undone"
  /\ \E b \in DOMAIN books : books[b].status = "pending" /\ QueuedFor(queue, b) # {}

(***************************************************************************)
(* C14: the queue and the statuses that are only reported                  *)
(***************************************************************************)
ReportedOnly == {"structure_reversed", "series_folder", "multi_book_files", "needs_split"}

\* C14: in every reachable state no queue row references an entry whose status
\* is 'structure_reversed', 'series_folder', 'multi_book_files' or 'needs_split'
C14_ReportedNeverQueued ==
  \A i \in DOMAIN queue :
    queue[i].book_id \in DOMAIN books => books[queue[i].book_id].status \notin ReportedOnly

\* a scan has marked an entry 'needs_split' that a deep rescan had queued
C14_QueuedThenMarked ==
  /\ last.op = "scan_library"
  /\ \E i \in DOMAIN queue :
       /\ queue[i].book_id \in DOMAIN books
       /\ books[queue[i].book_id].status = "needs_split"
       /\ queue[i].reason = ""

(***************************************************************************)
(* C15: the safety check at the head of the loop of process_queue          *)
(***************************************************************************)
\* the status the safety check gives the folder of a log entry, "" for none
SafetyStatus(e) ==
  IF ~is_dir(e.fs0, e.old_path) THEN ""
  ELSE IF is_series_folder(e.fs0, e.old_path) THEN "series_folder"
  ELSE IF is_multi_book_files(e.fs0, e.old_path) THEN "multi_book_files"
  ELSE ""

\* the history rows of an entry
RecordsOf(hist, book_id) == {<<h, hist[h]>> : h \in {k \in DOMAIN hist : hist[k].book_id = book_id}}

\* C15: an item of process_queue whose folder holds at least two book-numbered
\* subfolders, or audio files with at least two book numbers, is given status
\* 'series_folder' or 'multi_book_files', its queue row is deleted, no history
\* record is created for it and no rename is attempted, whatever was proposed
C15_SeriesFolderSkipped ==
  [][last'.op = "process_queue" =>
       \A k \in DOMAIN last'.log :
         LET e == last'.log[k]
         IN SafetyStatus(e) # "" =>
              /\ e.outcome = SafetyStatus(e) /\ e.status = SafetyStatus(e)
              /\ ~e.queued
              /\ Untouched(e) /\ e.target = <<>> /\ e.p = NoProposal
              /\ RecordsOf(history', e.book_id) = RecordsOf(history, e.book_id)
              /\ ~last'.aborted =>
                   /\ books'[e.book_id].status = SafetyStatus(e)
                   /\ e.queue_id \notin QueueIds(queue')
                   /\ e.queue_id \in QueueIds(queue)]_vars

\* one batch held a folder of numbered folders and a folder of numbered files
C15_BothKindsSkipped ==
  /\ ~last.aborted
  /\ \E e \in Entries("process_queue") : e.outcome = "series_folder" /\ books[e.book_id].status = "series_folder"
  /\ \E e \in Entries("process_queue") : e.outcome = "multi_book_files" /\ books[e.book_id].status = "multi_book_files"

(***************************************************************************)
(* C16: process_queue when the batch call gives no results                 *)
(***************************************************************************)
\* C16: when the batch call fails or returns no results, process_queue returns
\* (0, 0) and leaves every queue row, every entry and every history record
\* unchanged and the tree untouched; only the api_calls counter changes
C16_NoResultsChangesNothing ==
  [][(last'.op = "process_queue" /\ last'.log = <<>>) =>
       /\ last'.ok /\ last'.processed = 0
       /\ queue' = queue /\ books' = books /\ history' = history /\ fs' = fs
       /\ api_calls' = api_calls + 1]_vars

\* a call without results on a library with queued entries
C16_QueueKeptWithoutResults ==
  /\ last.op = "process_queue" /\ last.log = <<>> /\ last.processed = 0
  /\ queue # <<>> /\ api_calls > 0

(***************************************************************************)
(* C17: one item's failure and the rest of the batch                       *)
(***************************************************************************)
\* the queue rows a step has removed
RowsRemoved(q, q2) == Cardinality(QueueIds(q) \ QueueIds(q2))

\* C17: within one process_queue batch a failure while handling one item
\* (unsafe path, rename exception, malformed result) never keeps the other
\* items from being processed, and the returned processed count equals the
\* number of queue rows the call removed
C17_FailureKeepsBatchGoing ==
  [][last'.op = "process_queue" =>
       /\ ~last'.aborted
       /\ last'.processed = RowsRemoved(queue, queue')]_vars

\* the first item of a batch of two was renamed, the second raised: the call
\* ended there and both rows are still queued
C17_BatchEndedByOneItem ==
  /\ last.op = "process_queue" /\ last.aborted
  /\ Len(last.log) = 2
  /\ last.log[1].outcome = "fixed" /\ last.log[2].outcome = "raised"
  /\ \A k \in 1..2 : last.log[k].queue_id \in QueueIds(queue)

(***************************************************************************)
(* C18: build_new_path returning None inside process_queue                 *)
(***************************************************************************)
\* C18: whenever build_new_path returns None for an item, folder or loose file,
\* before or after verification, the entry becomes 'error' with a
\* path-validation message, its queue row is removed, no history record is
\* written and the tree is not changed
C18_NoPathEndsInError ==
  [][last'.op = "process_queue" =>
       \A k \in DOMAIN last'.log :
         LET e == last'.log[k]
         IN e.built = "none" =>
              /\ e.outcome = "error_path" /\ e.status = "error"
              /\ ~e.queued
              /\ Untouched(e) /\ e.target = <<>>
              /\ RecordsOf(history', e.book_id) = RecordsOf(history, e.book_id)
              /\ books'[e.book_id].status = "error"
              /\ books'[e.book_id].error_message \in
                   {"Path validation failed - unsafe author/title",
                    "Path validation failed after verification"}
              /\ e.queue_id \notin QueueIds(queue')]_vars

\* a loose file whose proposal gave no path: the call raised, the entry is
\* as it was and still queued
C18_LooseFileRaised ==
  /\ last.op = "process_queue" /\ last.aborted
  /\ \E e \in Entries("process_queue") :
       /\ e.built = "none" /\ e.outcome = "raised"
       /\ is_file(fs, e.old_path)
       /\ e.queue_id \in QueueIds(queue)
       /\ books[e.book_id].status # "error"

(***************************************************************************)
(* C19: 'pending_fix' entries and their history record                     *)
(***************************************************************************)
\* the 'pending_fix' history rows of the entry of a log entry that carry its
\* proposal
PendingRecords(hist, e) ==
  {h \in DOMAIN hist :
     /\ hist[h].book_id = e.book_id /\ hist[h].status = "pending_fix"
     /\ hist[h].new_author = e.new_author /\ hist[h].new_path = e.new_path}

\* C19: whenever process_queue leaves an entry in 'pending_fix' (auto-fix off,
\* drastic change, uncertain or failed verification), a history record with
\* status 'pending_fix' exists for the entry carrying the proposed author and
\* path and, for a blocked change, the reason
C19_PendingFixHasRecord ==
  (last.op = "process_queue" /\ ~last.aborted) =>
    \A e \in Entries("process_queue") :
      (e.status = "pending_fix" /\ e.book_id \in DOMAIN books
       /\ books[e.book_id].status = "pending_fix")
        => \E h \in PendingRecords(history, e) :
             e.verification = "uncertain" => history[h].error_message # ""

\* the verifier gave no answer: the entry waits for approval and no history
\* row names it
C19_BlockedWithoutRecord ==
  /\ last.op = "process_queue" /\ ~last.aborted
  /\ \E e \in Entries("process_queue") :
       /\ e.verification = "failed" /\ e.outcome = "blocked"
       /\ books[e.book_id].status = "pending_fix"
       /\ \A h \in DOMAIN history : history[h].book_id # e.book_id

(***************************************************************************)
(* C20: a drastic proposal with the protection switched off                *)
(***************************************************************************)
\* C20: with protect_author_changes disabled and auto_fix enabled a drastic
\* proposal is applied automatically like any other; it is recorded as
\* 'pending_fix' only when auto_fix is disabled
C20_UnprotectedDrasticApplied ==
  \A e \in Entries("process_queue") :
    (~config.protect_author_changes /\ config.auto_fix /\ e.checked /\ e.drastic
     /\ Handled(e))
      => (e.outcome # "pending_fix" /\ e.status # "pending_fix")

\* protection off, auto-fix on: the drastic proposal waits for approval and
\* the folder has not moved
C20_UnprotectedDrasticHeld ==
  /\ ~config.protect_author_changes /\ config.auto_fix
  /\ \E e \in Entries("process_queue") :
       /\ e.checked /\ e.drastic /\ ~e.asked
       /\ e.outcome = "pending_fix" /\ Untouched(e)
       /\ books[e.book_id].status = "pending_fix"

(***************************************************************************)
(* C21: the automatic rename that goes through                             *)
(***************************************************************************)
\* an item with a changed, non-drastic proposal and a valid path to a free
\* destination, renamed with auto-fix on by a move that succeeded
CleanRename(e) ==
  /\ config.auto_fix
  /\ e.checked /\ ~e.drastic /\ e.built = "path"
  /\ ~exists(e.fs0, e.new_path)
  /\ e.fault = "none" /\ e.outcome \notin {"error", "raised"}

\* the 'fixed' history rows that record the rename of a log entry
FixedRows(hist, e) ==
  {h \in DOMAIN hist :
     /\ hist[h].book_id = e.book_id /\ hist[h].status = "fixed"
     /\ hist[h].old_path = e.old_path /\ hist[h].new_path = e.new_path}

\* another entry already had the path the item was renamed to
Taken(e) == e.others # {}

\* C21 as amended: for an item whose proposal differs, is not drastic and
\* builds a valid path to a destination that does not exist, with auto_fix
\* enabled and a move that succeeds: the folder is at the new path, exactly
\* one new 'fixed' history record has old_path = the previous path and
\* new_path = the new path, and the queue row is gone; the entry is 'fixed'
\* with path = new path unless another entry already has the new path, and
\* then the entry is deleted
C21_CleanRenameRecordedOrMerged ==
  [][last'.op = "process_queue" =>
       \A k \in DOMAIN last'.log :
         LET e == last'.log[k]
         IN CleanRename(e) =>
              /\ e.outcome = "fixed" /\ e.target = e.new_path
              /\ exists(e.fs1, e.new_path) /\ ~exists(e.fs1, e.old_path)
              /\ IF Taken(e) THEN e.status = "deleted"
                  ELSE e.status = "fixed" /\ e.path = e.new_path
              /\ ~e.queued
              /\ ~last'.aborted =>
                   /\ Cardinality(FixedRows(history', e) \ FixedRows(history, e)) = 1
                   /\ e.queue_id \notin QueueIds(queue')
                   /\ exists(fs', e.new_path)]_vars

\* C21: for an item whose proposal differs, is not drastic and builds a valid
\* path to a destination that does not exist, with auto_fix enabled and a move
\* that succeeds: the folder is at the new path, the entry is 'fixed' with
\* path = new path, exactly one new 'fixed' history record has old_path = the
\* previous path and new_path = the new path, and the queue row is gone
C21_CleanRenameRecorded ==
  [][last'.op = "process_queue" =>
       \A k \in DOMAIN last'.log :
         LET e == last'.log[k]
         IN CleanRename(e) =>
              /\ e.outcome = "fixed" /\ e.target = e.new_path
              /\ exists(e.fs1, e.new_path) /\ ~exists(e.fs1, e.old_path)
              /\ e.status = "fixed" /\ e.path = e.new_path
              /\ ~e.queued
              /\ ~last'.aborted =>
                   /\ Cardinality(FixedRows(history', e) \ FixedRows(history, e)) = 1
                   /\ e.queue_id \notin QueueIds(queue')
                   /\ exists(fs', e.new_path)]_vars

\* a call that renamed a folder to a free destination another entry had as
\* its path: the folder is there, the record is written, the entry is gone
C21_RenamedIntoTakenPath ==
  /\ last.op = "process_queue" /\ ~last.aborted
  /\ \E e \in Entries("process_queue") :
       /\ CleanRename(e) /\ is_dir(fs, e.new_path) /\ ~exists(fs, e.old_path)
       /\ Taken(e) /\ e.book_id \notin DOMAIN books /\ BookAt(books, e.new_path) = e.others
       /\ FixedRows(history, e) # {}
       /\ e.queue_id \notin QueueIds(queue)

(***************************************************************************)
(* C29: apply_fix failing on a vanished source or a move that raised       *)
(***************************************************************************)
\* C29: when apply_fix fails because the source folder vanished or the move
\* raised, the entry the record references is marked 'error' (not left
\* 'pending_fix'), its path field is unchanged and the history record is
\* 'error'
C29_FailedFixMarksEntry ==
  [][last'.op = "apply_fix" =>
       \A k \in DOMAIN last'.log :
         LET e == last'.log[k]
         IN (e.outcome \in {"source_missing", "error"} /\ e.book_id \in DOMAIN books) =>
              /\ e.book_id \in DOMAIN books'
              /\ books'[e.book_id].status = "error"
              /\ books'[e.book_id].path = books[e.book_id].path
              /\ history'[e.history_id].status = "error"]_vars

\* the move of an approved fix raised: the record is 'error', the entry still
\* waits for approval
C29_EntryLeftPending ==
  \E e \in Entries("apply_fix") :
    /\ e.record_status = "pending_fix" /\ e.outcome = "error" /\ e.fault # "none"
    /\ history[e.history_id].status = "error"
    /\ books[e.book_id].status = "pending_fix"
    /\ books[e.book_id].path = e.old_path

(***************************************************************************)
(* C26: undo and the status of the record                                  *)
(***************************************************************************)
\* C26: undo succeeds only for a history record with status 'fixed'; on
\* success the folder is back at old_path, the record is 'undone' and the
\* entry is 'protected' with path and author restored; undo on a record that
\* is not 'fixed' never moves any folder
C26_UndoOnlyOfFixed ==
  [][last'.op = "api_undo" =>
       \A k \in DOMAIN last'.log :
         LET e == last'.log[k]
         IN /\ last'.ok =>
                 /\ e.record_status = "fixed"
                 /\ exists(fs', e.old_path) /\ ~exists(fs', e.new_path)
                 /\ history'[e.history_id].status = "undone"
                 /\ e.book_id \in DOMAIN books' =>
                      /\ books'[e.book_id].status = "protected"
                      /\ books'[e.book_id].path = e.old_path
                      /\ books'[e.book_id].current_author = e.old_author
            /\ e.record_status # "fixed" => fs' = fs]_vars

\* an undo of a record that was not 'fixed' has moved a folder
C26_UnfixedRecordUndone ==
  /\ last.op = "api_undo" /\ last.ok
  /\ \E e \in Entries("api_undo") :
       /\ e.record_status \notin {"", "fixed"}
       /\ e.fs1 # e.fs0 /\ exists(fs, e.old_path)
       /\ history[e.history_id].status = "undone"

(***************************************************************************)
(* C28: the segments build_new_path puts below the library root            *)
(***************************************************************************)
\* the number of segments of a returned path below the resolved library root
SegmentsBelow(e) == Len(e.new_path) - Len(Resolve(config.library_paths[1]))

\* the number of segments the naming mode lays out for a proposal
SegmentsOfMode(p) ==
  IF config.naming_format = "author - title" THEN 1
  ELSE IF config.series_grouping /\ p.series # <<>>
          /\ sanitize_path_component(p.series) # <<>> THEN 3
  ELSE 2

\* C28: every component build_new_path places in the destination is
\* sanitized, so none introduces a path separator: a result that is not None
\* has exactly two segments below the library root in default mode, three
\* with series grouping, one in flat mode
C28_ComponentsAddNoSegment ==
  \A e \in Entries("build_new_path") :
    (last.ok /\ config.naming_format # "custom") => SegmentsBelow(e) = SegmentsOfMode(e.p)

\* default mode, a year holding separators: the path returned is one folder
\* below the library root
C28_YearSplitsFolder ==
  \E e \in Entries("build_new_path") :
    /\ last.ok /\ config.naming_format = "author/title" /\ ~config.series_grouping
    /\ HasSub(e.p.year, <<"/">>)
    /\ e.p.edition = <<>> /\ e.p.variant = <<>>
    /\ SegmentsBelow(e) = 1

(***************************************************************************)
(* C27: process_queue and the configured library roots                     *)
(***************************************************************************)
\* C27: process_queue with auto_fix enabled never moves a folder to a
\* destination outside every configured library root, also when the entry's
\* stored path is under no currently configured library path
C27_RenameStaysInLibrary ==
  \A e \in Entries("process_queue") :
    (config.auto_fix /\ e.fs1 # e.fs0 /\ e.target # <<>>) => in_library(e.target, config)

\* the library path was changed after the scan: the folder was renamed inside
\* the old root, which is no configured library
C27_RenamedOutsideLibrary ==
  \E e \in Entries("process_queue") :
    /\ config.auto_fix /\ e.outcome = "fixed"
    /\ ~in_library(e.old_path, config) /\ ~in_library(e.target, config)
    /\ is_dir(fs, e.target) /\ ~exists(fs, e.old_path)

(***************************************************************************)
(* C22, C23: the rate limiter under concurrent lookups                     *)
(***************************************************************************)
\* C22: for each source of API_RATE_LIMITS and any interleaving of threads
\* calling rate_limit_wait for it, the call times recorded for two consecutive
\* calls to the source are at least its min_delay apart
C22_CallsMinDelayApart ==
  \A api \in DOMAIN API_RATE_LIMITS :
    \A i \in 1..(Len(globals.calls[api]) - 1) :
      globals.calls[api][i + 1] - globals.calls[api][i] >= API_RATE_LIMITS[api].min_delay

\* a thread slept under the lock while another waited for it, and both calls
\* to the source are recorded
C22_SecondCallerWaited ==
  \E api \in DOMAIN API_RATE_LIMITS :
    /\ Len(globals.calls[api]) >= 2
    /\ globals.calls[api][2] - globals.calls[api][1] = API_RATE_LIMITS[api].min_delay
    /\ \E t \in DOMAIN threads : threads[t].wake = globals.calls[api][2]

\* C23: two outbound requests to the same metadata source are never in flight
\* at the same time, for any interleaving of concurrent lookups
C23_OneRequestPerSource ==
  \A t1, t2 \in DOMAIN threads :
    (t1 # t2 /\ threads[t1].pc = "request" /\ threads[t2].pc = "request")
      => threads[t1].api # threads[t2].api

\* two requests to one source in flight, started min_delay apart
C23_TwoRequestsInFlight ==
  \E t1, t2 \in DOMAIN threads :
    /\ t1 # t2 /\ threads[t1].pc = "request" /\ threads[t2].pc = "request"
    /\ threads[t1].api = threads[t2].api
    /\ Len(globals.calls[threads[t1].api]) >= 2


\* C24: once stop_worker has turned worker_running off, the worker starts no
\* further batch: a worker hands a non-empty batch to the model only while
\* worker_running is on
C24_NoBatchAfterStop ==
  [][\A w \in DOMAIN threads :
       (/\ threads[w].kind = "worker" /\ threads[w].pc = "batch"
        /\ globals.pending > 0
        /\ threads'[w].pc \in {"between", "retry", "interval"})
       => globals.worker_running]_vars

\* a worker that began a batch after the stop and is waiting to begin the next
C24_BatchBegunAfterStop ==
  \E w \in DOMAIN threads :
    /\ threads[w].kind = "worker" /\ threads[w].unasked
    /\ threads[w].pc \in {"between", "retry"}
    /\ ~globals.worker_running /\ globals.pending > 0

\* C30: at most one background worker thread is alive at any time
C30_OneWorkerAlive ==
  Cardinality({w \in DOMAIN threads : threads[w].kind = "worker" /\ is_alive(w)}) <= 1

\* two workers inside their loops at once, both started by requests
C30_TwoWorkersAlive ==
  \E w1, w2 \in DOMAIN threads :
    /\ w1 < w2 /\ threads[w1].kind = "worker" /\ threads[w2].kind = "worker"
    /\ threads[w1].pc \notin {"stopped", "loop"}
    /\ threads[w2].pc \notin {"stopped", "loop"}

\* C25: each queue item is consumed by one process_queue invocation: every
\* row an invocation handles is still a queue row when it handles it, and an
\* entry that is 'fixed' is not marked 'error' by an invocation
C25_ItemConsumedOnce ==
  [][last'.op = "process_queue" =>
       /\ \A i \in DOMAIN last'.log : last'.log[i].queue_id \in QueueIds(queue)
       /\ \A b \in DOMAIN books :
            books[b].status = "fixed" => books'[b].status # "error"]_vars

\* an invocation has handled a row another one had consumed: the entry the
\* first one fixed is left in 'error' by the second
C25_ItemProcessedTwice ==
  /\ last.op = "process_queue" /\ last.log # <<>>
  /\ \E b \in DOMAIN books : \E h \in DOMAIN history :
       /\ history[h].book_id = b /\ history[h].status = "fixed"
       /\ last.log[1].book_id = b /\ last.log[1].old_path = history[h].old_path
       /\ books[b].status = "error"


(***************************************************************************)
(* C40: entries that are 'verified' or 'fixed' and a later scan            *)
(***************************************************************************)
\* C40: once an entry is 'verified' or 'fixed', no later scan_library run adds
\* it to the queue or changes its status, folder or loose file
C40_SettledNotRequeued ==
  [][\A b \in DOMAIN books :
       (books[b].status \in {"verified", "fixed"} /\ last'.op = "scan_library")
         => /\ b \in DOMAIN books' /\ books'[b].status = books[b].status
            /\ QueueRows(queue', b) \subseteq QueueRows(queue, b)]_vars

\* a loose file whose entry is 'verified' and which a scan has queued again
C40_VerifiedLooseFileQueued ==
  /\ last.op = "scan_library"
  /\ \E b \in DOMAIN books :
       /\ books[b].status = "verified" /\ is_file(fs, books[b].path)
       /\ QueueRows(queue, b) # {}

(***************************************************************************)
(* C39: the 'pending_fix' records of one entry                             *)
(***************************************************************************)
\* the 'pending_fix' history rows of an entry
WaitingRecords(book_id) ==
  {h \in DOMAIN history : history[h].book_id = book_id /\ history[h].status = "pending_fix"}

\* C39: with auto_fix disabled, under any sequence of scan_library and
\* process_queue calls each entry has at most one 'pending_fix' history record
C39_OnePendingFixPerEntry ==
  \A b \in DOMAIN books : Cardinality(WaitingRecords(b)) <= 1

\* an entry proposed for in two batches, with both proposals waiting
C39_TwoPendingFixes ==
  /\ ~config.auto_fix /\ last.op = "process_queue"
  /\ \E b \in DOMAIN books :
       /\ books[b].status = "pending_fix" /\ is_dir(fs, books[b].path)
       /\ Cardinality(WaitingRecords(b)) = 2

(***************************************************************************)
(* C37: a waiting proposal and the path checks of apply_fix                *)
(***************************************************************************)
\* C37: a 'pending_fix' record, written by process_queue from a path that
\* build_new_path accepted, is applied by apply_fix under the same
\* configuration when the source is there and the destination is not
C37_PendingFixApplies ==
  [][last'.op = "apply_fix" =>
       \A k \in DOMAIN last'.log :
         LET e == last'.log[k]
         IN (/\ e.record_status = "pending_fix" /\ inputs.library_paths = {}
             /\ exists(e.fs0, e.old_path) /\ ~exists(e.fs0, e.new_path)
             /\ e.fault = "none")
            => e.outcome = "fixed"]_vars

\* a flat 'Author - Title' proposal refused by apply_fix as too shallow
C37_FlatProposalRefused ==
  /\ last.op = "apply_fix" /\ config.naming_format = "author - title"
  /\ \E e \in Entries("apply_fix") :
       /\ e.record_status = "pending_fix" /\ e.outcome = "too_shallow"
       /\ exists(fs, e.old_path) /\ ~exists(fs, e.new_path)
       /\ history[e.history_id].status = "error"

(***************************************************************************)
(* C38: start_worker after stop_worker                                     *)
(***************************************************************************)
\* C38: once start_worker is called after a stop_worker, even while the
\* previous worker thread has not yet exited, eventually a worker loop is
\* running and is_worker_running() is True, unless stop_worker is called
\* again first
C38_StartedWorkerRuns ==
  globals.wanted ~> (is_worker_running \/ ~globals.wanted)

\* start_worker was called last and has returned, every worker thread has
\* exited and no call of start_worker is under way
C38_StartedButNoWorker ==
  /\ globals.wanted /\ ~globals.worker_running
  /\ \A t \in DOMAIN threads :
       IF threads[t].kind = "worker" THEN ~is_alive(t) ELSE threads[t].pc = "idle"

\* process_all_queue is inside its loop
InLoop == threads[1].pc \in {"loop", "sleep"}

\* process_all_queue has returned and the queue has no row
ReturnedEmpty == threads[1].pc = "returned" /\ queue = <<>>

\* C35: a running process_all_queue eventually returns with an empty
\* queue, provided the model goes on yielding a result for at least one item
C35_ReturnsWithEmptyQueue == InLoop ~> ReturnedEmpty

\* the object of the last answer labelled ITEM_k
LabelledFor(k) ==
  {globals.results[j] : j \in {i \in DOMAIN globals.results : globals.results[i].item = k}}

\* C36: the result applied to the i-th item of the batch is the one the
\* answer labels ITEM_i, whatever the length and the order of the answer
C36_ResultAppliedToItsItem ==
  last.op = "process_queue" =>
    \A k \in DOMAIN last.log :
      /\ last.log[k].queue_id = globals.batch[k].queue_id
      /\ \E a \in LabelledFor(k) : last.log[k].p = proposal_of(globals.batch[k], a.result)

\* an answer holding ITEM_2 alone, the name of the second folder's author,
\* was applied to the first item, the folder of another author
C36_SecondAnswerOnFirstItem ==
  /\ last.op = "process_queue"
  /\ Len(globals.batch) = 2 /\ Len(globals.results) = 1
  /\ globals.batch[1].current_author = <<"C","a","r","r">>
  /\ globals.batch[2].current_author = <<"B","o","y","e","t","t">>
  /\ globals.results[1] = Labelled(2, Clean)
  /\ Len(last.log) = 1
  /\ last.log[1].book_id = globals.batch[1].book_id
  /\ last.log[1].p.author = Clean.author
  /\ last.log[1].outcome \in {"fixed", "pending_fix"}

\* process_all_queue was left by the exception of a batch whose item had an
\* answer, and the item is still queued
C35_LeftByExceptionWithQueue ==
  /\ threads[1].pc = "raised"
  /\ queue # <<>>
  /\ last.op = "process_queue" /\ last.aborted
  /\ \E k \in DOMAIN last.log :
       /\ last.log[k].outcome = "raised"
       /\ last.log[k].p.author = Unsafe.author
       /\ \E q \in DOMAIN queue : queue[q].id = last.log[k].queue_id

\* lower case, the white space at both ends gone
Normalized(name) == StripChars(Lower(name), SpaceChars)

\* a longest token of one name is part of a longest token of the other
LongestWithin(old_parts, new_parts) ==
  \E a \in LongestParts(old_parts) : \E b \in LongestParts(new_parts) :
    a # <<>> /\ b # <<>> /\ (HasSub(a, b) \/ HasSub(b, a))

\* the value the rule gives for two names
DrasticByRule(old, new) ==
  LET old_parts == get_name_parts(old)
      new_parts == get_name_parts(new)
      common == old_parts \cap new_parts
  IN IF old = <<>> \/ new = <<>> \/ Normalized(old) \in placeholder_authors
        \/ Normalized(old) = Normalized(new)
     THEN FALSE
     ELSE IF common = {} THEN ~LongestWithin(old_parts, new_parts)
     ELSE 10 * Cardinality(common)
            < 3 * MaxOf({Cardinality(old_parts), Cardinality(new_parts)})

\* C33: is_drastic_author_change is False for an empty name, a placeholder
\* as the old name or equal normalized names; with disjoint token sets it is
\* False exactly when the longest token of one is part of the longest token
\* of the other; with overlapping sets it is True exactly when the share of
\* common tokens in the larger set is below 0.3
C33_DrasticAsTheRule ==
  globals.called => globals.returned = DrasticByRule(globals.old_author, globals.new_author)

\* two tokens of the old name are equally long, one of them is part of the
\* new name's longest token, and the function returned True
C33_TieDecidedTheOtherWay ==
  /\ globals.called /\ globals.returned
  /\ globals.old_author = <<"J","o","h","n"," ","C","a","r","r">> /\ globals.new_author = <<"J","o","h","n","s","o","n">>
  /\ LongestParts(get_name_parts(globals.old_author)) = {<<"j","o","h","n">>, <<"c","a","r","r">>}
  /\ HasSub(<<"j","o","h","n","s","o","n">>, <<"j","o","h","n">>) \/ HasSub(<<"j","o","h","n">>, <<"j","o","h","n","s","o","n">>)

\* the Jaccard overlap of the word sets of two titles, as a fraction
Jaccard(query, hit) ==
  IF normalize(query) = {} \/ normalize(hit) = {} THEN [num |-> 0, den |-> 1]
  ELSE [num |-> Cardinality(normalize(query) \cap normalize(hit)),
        den |-> Cardinality(normalize(query) \cup normalize(hit))]

\* what the rule gives for a query of `count` significant words
RejectedByRule(query, hit, count) ==
  LET s == Jaccard(query, hit)
  IN /\ 10 * s.num < 3 * s.den
     /\ ~(count <= 2 /\ 10 * s.num >= 2 * s.den)

\* the words of the lowercase query longer than two characters, repeats and
\* stop words counted
LongWords(query) ==
  LET words == SplitWords(Lower(query))
  IN Cardinality({i \in DOMAIN words : Len(words[i]) > 2})

C31_CandidateKeysDistinct ==
  globals.called =>
    \A i, j \in DOMAIN globals.candidates :
      i # j => key(globals.candidates[i]) # key(globals.candidates[j])

\* one API found the same book for the original and for the proposed names,
\* and both hits are among the candidates
C31_SameBookTwice ==
  /\ globals.called
  /\ \E i, j \in DOMAIN globals.candidates :
       /\ i < j
       /\ globals.candidates[i].author = globals.candidates[j].author
       /\ globals.candidates[i].title = globals.candidates[j].title
       /\ globals.candidates[i].source = globals.candidates[j].source
       /\ globals.candidates[i].search_query # globals.candidates[j].search_query

\* a lookup of the step did not succeed
FailedStep(e) == ~e.author_result.succeeded \/ ~e.series_result.succeeded

\* the role the result holds for a folder name, NoRole when it holds none
RoleOf(result, folder) ==
  IF folder \in DOMAIN result.folder_roles THEN result.folder_roles[folder] ELSE NoRole

\* the folder name occurs once in the path
OnceInPath(folder) ==
  Cardinality({i \in DOMAIN globals.folders : globals.folders[i] = folder}) = 1

\* C34: when the author or the series lookup failed for a folder, the issues
\* of the result hold 'db_lookup_failed' and the folder's role comes from the
\* patterns and the position alone, the answers of the lookups unused
C34_FailedLookupUsesPatterns ==
  globals.called =>
    \A k \in DOMAIN globals.result.steps :
      LET e == globals.result.steps[k]
      IN FailedStep(e) =>
           /\ \E n \in DOMAIN globals.result.issues :
                globals.result.issues[n] = "db_lookup_failed"
           /\ e.branch = "patterns"
           /\ e.role \in {"author", "book_number", "series", "likely_author", NoRole}
           /\ OnceInPath(e.folder) => RoleOf(globals.result, e.folder) = e.role

\* the author lookup failed for a folder the series table knows; the folder
\* is an author by its pattern and the failure is among the issues
C34_FailedLookupDecidedByPattern ==
  /\ globals.called
  /\ \E k \in DOMAIN globals.result.steps :
       LET e == globals.result.steps[k]
       IN /\ e.author_result = LookupFailed /\ e.series_result = Found
          /\ e.folder = <<"S","t","e","p","h","e","n"," ","K","i","n","g">>
          /\ e.role = "author" /\ e.branch = "patterns"
          /\ RoleOf(globals.result, e.folder) = "author"
  /\ globals.result.issues[1] = "db_lookup_failed"

====
